---- MODULE Spec2Model ----
(***************************************************************************)
(* Model of the YTRIO text-to-audiobook core:                              *)
(*   - ProgressiveProcessor._process_chunks_concurrent (chunk orchestrator)*)
(*   - SmartFallbackProcessor (speed guard) and TextClassifier             *)
(*   - rewrite_with_tone and its module-level results cache _text_cache    *)
(*   - DocumentChunker (smart_chunk, optimize_chunk_sizes)                 *)
(* Each part has its own specification over the shared variables.          *)
(***************************************************************************)
EXTENDS Integers, Sequences, FiniteSets, TLC

VARIABLES
    \* ---- chunk orchestrator (utils/progressive_processor.py) ----
    chunks,             \* the chunk list handed to _process_chunks_concurrent
    opc,                \* position of the generator: idle/sequential/pool/done/raised/direct
    seqPos,             \* next chunk of the sequential loop (1-based)
    fstate,             \* per chunk: state of its future in the ThreadPoolExecutor
    fresult,            \* per chunk: what future.result() returns
    results,            \* the local list `results` ([None] * len(chunks))
    completed_count,    \* the local counter `completed_count`
    emitted,            \* every dict yielded by the generator, in yield order
    submitted           \* chunk index of every rewrite call started, in start order

VARIABLES
    \* ---- speed guard (utils/smart_fallback.py) ----
    ai_is_slow,         \* SmartFallbackProcessor.ai_is_slow of the long-lived processor
    probes,             \* how often the speed test of detect_ai_speed ran on it
    requests,           \* process_with_smart_fallback requests it has served
    firstVerdict,       \* the value the first speed test stored in ai_is_slow
    lastReq,            \* observation of the last request (method or module level)
    modRequests,        \* requests served by the module-level function
    modProbes           \* speed tests run on behalf of the module-level function

VARIABLES
    \* ---- tone rewriter and its results cache (utils/granite_helper.py) ----
    text_cache,         \* the module-level dict _text_cache, in insertion order
    wpc,                \* per caller thread: position inside rewrite_with_tone
    wreq,               \* per caller thread: the request (text, tone, flag) being served
    iter_used,          \* per caller thread: dict size seen by iter(_text_cache)
    oldest_key,         \* per caller thread: the local oldest_key
    wret,               \* per caller thread: outcome of its last completed call
    wprev,              \* per caller thread: outcome of the call before that
    clock,              \* number of insertions made so far (stamps the entries)
    evictedStamp,       \* insertion stamp of the entry removed last
    poolWork            \* chunks the pool threads have not yet taken

VARIABLES
    \* ---- strategy classifier (utils/adaptive_optimizer.py) ----
    classified,         \* the last TextClassifier.classify_text call and its result
    prevClassified      \* the classify_text call before that

VARIABLES
    \* ---- document chunker (utils/chunking_strategy.py) ----
    doc,                \* the text handed to DocumentChunker.smart_chunk
    chunker,            \* the DocumentChunker instance (its three settings)
    cpc,                \* position of the caller: input/chunked/optimized/raised
    spans               \* the chunk list the caller holds

VARIABLES
    \* ---- adaptive processor (utils/adaptive_optimizer.py) ----
    performance_cache,  \* AdaptiveProcessor.performance_cache: key -> measured times
    lastAdaptive,       \* what the last process_text_adaptive call did and returned
    adaptiveCalls       \* number of process_text_adaptive calls made

VARIABLES
    \* ---- generate handler and session history (main.py, main_backup.py) ----
    past_narrations,    \* st.session_state.past_narrations
    lastGen,            \* what the last press of "Generate Audiobook" did
    generations         \* number of presses so far (stands for the timestamp)

orchVars == <<chunks, opc, seqPos, fstate, fresult, results, completed_count, emitted,
              submitted>>
guardVars == <<ai_is_slow, probes, requests, firstVerdict, lastReq, modRequests, modProbes>>
cacheVars == <<text_cache, wpc, wreq, iter_used, oldest_key, wret, wprev, clock,
               evictedStamp, poolWork>>

classVars == <<classified, prevClassified>>
chunkVars == <<doc, chunker, cpc, spans>>
adaptVars == <<performance_cache, lastAdaptive, adaptiveCalls>>
uiVars == <<past_narrations, lastGen, generations>>

\* what the orchestrator leaves alone, and what the speed guard leaves alone
nonOrchVars == <<guardVars, cacheVars, classVars, chunkVars, adaptVars, uiVars>>
nonGuardVars == <<orchVars, cacheVars, classVars, chunkVars, adaptVars, uiVars>>
nonCacheVars == <<orchVars, guardVars, classVars, chunkVars, adaptVars, uiVars>>
nonClassVars == <<orchVars, guardVars, cacheVars, chunkVars, adaptVars, uiVars>>
nonChunkVars == <<orchVars, guardVars, cacheVars, classVars, adaptVars, uiVars>>
nonAdaptVars == <<orchVars, guardVars, cacheVars, classVars, chunkVars, uiVars>>
nonUiVars == <<orchVars, guardVars, cacheVars, classVars, chunkVars, adaptVars>>

vars == <<orchVars, guardVars, cacheVars, classVars, chunkVars, adaptVars, uiVars>>

(***************************************************************************)
(* Bounds                                                                  *)
(***************************************************************************)
MaxChunks == 4
MaxRequests == 3
MaxKeys == 52
RaceWarm == 49
MaxTokens == 4
MaxAdaptive == 1
MaxGenerations == 7

(***************************************************************************)
(* Chunk orchestrator                                                      *)
(***************************************************************************)
\* ProgressiveProcessor.__init__: max_concurrent_chunks defaults to 2
max_concurrent_chunks == 2

Min(a, b) == IF a <= b THEN a ELSE b

\* Python None in the `results` list
None == [text |-> <<>>, original_text |-> <<>>, chunk_index |-> -1, error |-> FALSE]

\* chunk['text'] of the chunk with index i
ChunkText(i) == <<"orig", i>>

\* what the rewrite capability returns for chunk text t when it does not raise
Rewritten(t) == <<"rewritten", t[2]>>

\* the chunk list produced by the chunker: indices 0..n-1 in list order
MakeChunks(n) == [k \in 1..n |-> [text |-> ChunkText(k - 1), index |-> k - 1]]

\* _process_single_chunk: the try block returns the rewrite, the except block
\* returns the chunk's own text tagged with the error
ProcessSingleChunk(chunk, outcome) ==
    IF outcome = "ok"
    THEN [text |-> Rewritten(chunk.text), original_text |-> chunk.text,
          chunk_index |-> chunk.index, error |-> FALSE]
    ELSE [text |-> chunk.text, original_text |-> chunk.text,
          chunk_index |-> chunk.index, error |-> TRUE]

\* the inner loop of the collection loop:
\*   while completed_count > 0 and results[len(results) - completed_count] is not None:
\*       yield results[len(results) - completed_count]; completed_count -= 1
RECURSIVE EmitLoop(_, _, _)
EmitLoop(res, cc, out) ==
    IF cc > 0 /\ res[(Len(res) - cc) + 1] # None
    THEN EmitLoop(res, cc - 1, Append(out, res[(Len(res) - cc) + 1]))
    ELSE <<cc, out>>

\* the final loop: for result in results: if result is not None: yield result
RECURSIVE YieldRemaining(_, _, _)
YieldRemaining(res, k, out) ==
    IF k > Len(res) THEN out
    ELSE YieldRemaining(res, k + 1, IF res[k] # None THEN Append(out, res[k]) ELSE out)

Outcomes == {"ok", "raise"}

\* a call of _process_chunks_concurrent(chunks, ...) up to its first suspension:
\* the sequential branch for len(chunks) <= 2, otherwise all chunks submitted
StartChunks(n) ==
    /\ opc = "idle"
    /\ chunks' = MakeChunks(n)
    /\ opc' = IF n <= 2 THEN "sequential" ELSE "pool"
    /\ seqPos' = 1
    /\ fstate' = [k \in 1..n |-> IF n <= 2 THEN "unused" ELSE "queued"]
    /\ fresult' = [k \in 1..n |-> None]
    /\ results' = [k \in 1..n |-> None]
    /\ completed_count' = 0
    /\ emitted' = <<>>
    /\ submitted' = <<>>
    /\ UNCHANGED nonOrchVars

\* one iteration of the sequential loop (lines 116-127): the rewrite call is
\* not guarded, so an exception leaves the generator
SeqStep(outcome) ==
    /\ opc = "sequential"
    /\ seqPos <= Len(chunks)
    /\ submitted' = Append(submitted, chunks[seqPos].index)
    /\ IF outcome = "raise"
       THEN /\ opc' = "raised"
            /\ UNCHANGED <<seqPos, emitted>>
       ELSE /\ emitted' = Append(emitted, ProcessSingleChunk(chunks[seqPos], "ok"))
            /\ seqPos' = seqPos + 1
            /\ opc' = IF seqPos = Len(chunks) THEN "done" ELSE "sequential"
    /\ UNCHANGED <<chunks, fstate, fresult, results, completed_count, nonOrchVars>>

Running == {k \in DOMAIN fstate : fstate[k] = "running"}
Queued == {k \in DOMAIN fstate : fstate[k] = "queued"}
\* variant: a pool with a thread for every submitted chunk
PoolSize_OnePerChunk == Len(chunks)

\* max_workers of the ThreadPoolExecutor (line 131)
PoolSize == Min(max_concurrent_chunks, Len(chunks))

\* a pool thread takes the next work item from the executor's FIFO queue
WorkerStart(k) ==
    /\ opc = "pool"
    /\ k \in Queued
    /\ \A j \in Queued : k <= j
    /\ Cardinality(Running) < PoolSize
    /\ fstate' = [fstate EXCEPT ![k] = "running"]
    /\ submitted' = Append(submitted, chunks[k].index)
    /\ UNCHANGED <<chunks, opc, seqPos, fresult, results, completed_count, emitted, nonOrchVars>>

\* the pool thread returns from _process_single_chunk
WorkerFinish(k, outcome) ==
    /\ opc = "pool"
    /\ fstate[k] = "running"
    /\ fstate' = [fstate EXCEPT ![k] = "finished"]
    /\ fresult' = [fresult EXCEPT ![k] = ProcessSingleChunk(chunks[k], outcome)]
    /\ UNCHANGED <<chunks, opc, seqPos, results, completed_count, emitted, submitted, nonOrchVars>>

\* one iteration of `for future in as_completed(future_to_chunk)` (lines
\* 142-153); after the last future the trailing loop of lines 169-171 runs
Collect(k) ==
    /\ opc = "pool"
    /\ fstate[k] = "finished"
    /\ LET res1 == [results EXCEPT ![chunks[k].index + 1] = fresult[k]]
           loop == EmitLoop(res1, completed_count + 1, emitted)
           isLast == \A j \in DOMAIN fstate : j # k => fstate[j] = "collected"
       IN /\ results' = res1
          /\ completed_count' = loop[1]
          /\ emitted' = IF isLast THEN YieldRemaining(res1, 1, loop[2]) ELSE loop[2]
          /\ opc' = IF isLast THEN "done" ELSE "pool"
    /\ fstate' = [fstate EXCEPT ![k] = "collected"]
    /\ UNCHANGED <<chunks, seqPos, fresult, submitted, nonOrchVars>>

\* process_text_progressive on a text below 300 characters (lines 50-65): one
\* rewrite_with_tone call on the whole text, not guarded, and
\* _process_chunks_concurrent unused
ShortText(outcome) ==
    /\ opc = "idle"
    /\ opc' = IF outcome = "raise" THEN "direct_raised" ELSE "direct"
    /\ UNCHANGED <<chunks, seqPos, fstate, fresult, results, completed_count, emitted,
                   submitted, nonOrchVars>>

\* one event of process_text_progressive: its type, and 'current' and 'total'
\* ('chunk_index' of chunk_complete, 'chunk_count' of chunks_created)
Event(type, current, total) == [type |-> type, current |-> current, total |-> total]

\* the events of lines 81-98 for the first n results the inner generator yields
RECURSIVE ChunkEvents(_)
ChunkEvents(n) ==
    IF n = 0 THEN <<>>
    ELSE ChunkEvents(n - 1) \o <<Event("chunk_complete", n - 1, Len(chunks)),
                                  Event("progress", n, Len(chunks))>>

\* everything process_text_progressive has yielded so far
ProgressEvents ==
    IF opc = "idle" THEN <<>>
    ELSE IF opc = "direct_raised"
    THEN <<Event("analysis", 0, 0), Event("progress", 0, 1)>>
    ELSE IF opc = "direct"
    THEN <<Event("analysis", 0, 0), Event("progress", 0, 1), Event("progress", 1, 1),
           Event("complete", 1, 1)>>
    ELSE <<Event("analysis", 0, 0), Event("chunks_created", 0, Len(chunks))>>
         \o ChunkEvents(Len(emitted))
         \o (IF opc = "done" THEN <<Event("complete", Len(chunks), Len(chunks))>>
             ELSE <<>>)

OrchInit ==
    /\ chunks = <<>>
    /\ opc = "idle"
    /\ seqPos = 1
    /\ fstate = <<>>
    /\ fresult = <<>>
    /\ results = <<>>
    /\ completed_count = 0
    /\ emitted = <<>>
    /\ submitted = <<>>

OrchNext ==
    \/ \E n \in 1..MaxChunks : StartChunks(n)
    \/ \E o \in Outcomes : SeqStep(o)
    \/ \E k \in DOMAIN fstate : WorkerStart(k)
    \/ \E k \in DOMAIN fstate, o \in Outcomes : WorkerFinish(k, o)
    \/ \E k \in DOMAIN fstate : Collect(k)
    \/ \E o \in Outcomes : ShortText(o)

(***************************************************************************)
(* Processing strategy classifier (utils/adaptive_optimizer.py)            *)
(* quality_preference and complexity_score are carried in hundredths.      *)
(***************************************************************************)
\* TextClassifier.thresholds
ThresholdMicro == 50
ThresholdExpress == 150
ThresholdStandard == 500
ThresholdChunked == 2000

\* variant: the thresholds taken as exclusive upper bounds
get_base_strategy_Exclusive(text_length) ==
    IF text_length < ThresholdMicro THEN "micro"
    ELSE IF text_length < ThresholdExpress THEN "express"
    ELSE IF text_length < ThresholdStandard THEN "standard"
    ELSE IF text_length < ThresholdChunked THEN "chunked"
    ELSE "progressive"

\* TextClassifier._get_base_strategy: first tier whose threshold is >= length
get_base_strategy(text_length) ==
    IF text_length <= ThresholdMicro THEN "micro"
    ELSE IF text_length <= ThresholdExpress THEN "express"
    ELSE IF text_length <= ThresholdStandard THEN "standard"
    ELSE IF text_length <= ThresholdChunked THEN "chunked"
    ELSE "progressive"

\* variant: the complexity branch upgrades express only
AdjustForComplexity_ExpressOnly(base_strategy, quality_preference, complexity) ==
    IF complexity > 70 /\ quality_preference > 60
    THEN IF base_strategy = "express" THEN "standard" ELSE base_strategy
    ELSE base_strategy

\* the complexity branch of _adjust_for_preferences (lines 115-124)
AdjustForComplexity(base_strategy, quality_preference, complexity) ==
    IF complexity > 70 /\ quality_preference > 60
    THEN IF base_strategy = "express" THEN "standard"
         ELSE IF base_strategy = "standard" THEN "chunked"
         ELSE base_strategy
    ELSE base_strategy

\* variant: the complexity branch is consulted before the fast-mode branch
adjust_for_preferences_ComplexityFirst(base_strategy, ultra_fast_mode, quality_preference, complexity) ==
    IF complexity > 70 /\ quality_preference > 60
          /\ base_strategy \in {"express", "standard"}
    THEN AdjustForComplexity(base_strategy, quality_preference, complexity)
    ELSE IF ultra_fast_mode /\ quality_preference < 70
    THEN IF base_strategy = "standard" THEN "express"
         ELSE IF base_strategy = "chunked" THEN "standard"
         ELSE IF base_strategy = "progressive" THEN "chunked"
         ELSE base_strategy
    ELSE IF quality_preference > 80
    THEN IF base_strategy = "micro" THEN "express"
         ELSE IF base_strategy = "express" THEN "standard"
         ELSE base_strategy
    ELSE base_strategy

\* variant: ultra fast mode also takes express down to micro
adjust_for_preferences_ExpressToMicro(base_strategy, ultra_fast_mode, quality_preference, complexity) == IF ultra_fast_mode /\ quality_preference < 70 /\ base_strategy = "express" THEN "micro" ELSE base_strategy

\* TextClassifier._adjust_for_preferences
adjust_for_preferences(base_strategy, ultra_fast_mode, quality_preference, complexity) ==
    IF ultra_fast_mode /\ quality_preference < 70
    THEN IF base_strategy = "standard" THEN "express"
         ELSE IF base_strategy = "chunked" THEN "standard"
         ELSE IF base_strategy = "progressive" THEN "chunked"
         ELSE AdjustForComplexity(base_strategy, quality_preference, complexity)
    ELSE IF quality_preference > 80
    THEN IF base_strategy = "micro" THEN "express"
         ELSE IF base_strategy = "express" THEN "standard"
         ELSE AdjustForComplexity(base_strategy, quality_preference, complexity)
    ELSE AdjustForComplexity(base_strategy, quality_preference, complexity)

\* TextClassifier.classify_text, the 'strategy' entry of its result
classify_text(text, ultra_fast_mode, quality_preference) ==
    adjust_for_preferences(get_base_strategy(text.len), ultra_fast_mode,
                           quality_preference, text.complexity)

\* How many model.generate calls AdaptiveProcessor.process_text_adaptive can
\* make under a strategy: _process_micro makes none; express and standard make
\* one rewrite_with_tone call, chunked and progressive one per chunk, and a
\* rewrite_with_tone call reaches the model unless the results cache or the
\* short-text shortcut answers it.
AdaptiveModelCalls(strategy, nchunks) ==
    IF strategy = "micro" THEN {0}
    ELSE IF strategy \in {"express", "standard"} THEN 0..1
    ELSE 0..nchunks

\* the tiers in the order of ProcessingStrategy, lightest first
StrategyRank(strategy) ==
    CASE strategy = "micro" -> 1
      [] strategy = "express" -> 2
      [] strategy = "standard" -> 3
      [] strategy = "chunked" -> 4
      [] strategy = "progressive" -> 5

\* inputs of classify_text: lengths on both sides of every threshold, complexity
\* scores on both sides of 0.7, quality preferences in each range that
\* _adjust_for_preferences tells apart (0.5 is the default)
ClassLengths == {ThresholdMicro, ThresholdMicro + 1, ThresholdExpress,
                 ThresholdExpress + 1, ThresholdStandard, ThresholdStandard + 1,
                 ThresholdChunked, ThresholdChunked + 1}
ClassComplexities == {70, 71}
ClassQualities == {50, 65, 70, 85}

\* no classify_text call made yet
NoClass == [text_length |-> -1, complexity |-> 0, ultra_fast_mode |-> FALSE,
            quality_preference |-> 0, base_strategy |-> "none", strategy |-> "none"]

\* the arguments and the 'base_strategy' and 'strategy' entries of the
\* dictionary classify_text returns
Classification(text_length, complexity, ultra_fast_mode, quality_preference) ==
    [text_length |-> text_length, complexity |-> complexity,
     ultra_fast_mode |-> ultra_fast_mode, quality_preference |-> quality_preference,
     base_strategy |-> get_base_strategy(text_length),
     strategy |-> classify_text([len |-> text_length, complexity |-> complexity],
                                ultra_fast_mode, quality_preference)]

\* one call of TextClassifier.classify_text
Classify(text_length, complexity, ultra_fast_mode, quality_preference) ==
    /\ prevClassified' = classified
    /\ classified' = Classification(text_length, complexity, ultra_fast_mode,
                                    quality_preference)
    /\ UNCHANGED nonClassVars

ClassInit ==
    /\ classified = NoClass
    /\ prevClassified = NoClass

ClassNext ==
    \E n \in ClassLengths, c \in ClassComplexities, f \in BOOLEAN,
       q \in ClassQualities : Classify(n, c, f, q)

(***************************************************************************)
(* Speed guard (utils/smart_fallback.py)                                   *)
(***************************************************************************)
\* SmartFallbackProcessor.__init__: self.slow_threshold = 15.0 (seconds)
slow_threshold == 15

\* detect_ai_speed: test_text = "This is a test to measure AI processing speed."
\* 46 characters, one of nine words longer than 7 characters, no punctuation
\* of the complexity set, one sentence: complexity 0.4 * 1/9 = 0.04
test_text == [len |-> 46, complexity |-> 4]

Tones == {"Neutral", "Suspenseful", "Inspiring"}

\* request texts: length and complexity score (hundredths)
GuardTexts == [len : {10, 46, 120, 400, 1200, 2500}, complexity : {4, 80}]

\* wall-clock seconds measured around the speed test
ProbeTimes == {1, 16}

\* detect_ai_speed with the cached verdict returned without the negation
detect_ai_speed_CachedNotNegated(slow, elapsed, pcalls) ==
    IF slow # "None"
    THEN [ai_is_slow |-> slow, ai_is_fast |-> (slow = "True"),
          probed |-> FALSE, probeStrategy |-> "none", probeCalls |-> 0]
    ELSE LET verdict == IF elapsed > slow_threshold THEN "True" ELSE "False"
         IN [ai_is_slow |-> verdict, ai_is_fast |-> (verdict = "False"),
             probed |-> TRUE,
             probeStrategy |-> classify_text(test_text, TRUE, 30),
             probeCalls |-> pcalls]

\* detect_ai_speed without the early return on a cached verdict
detect_ai_speed_NoCache(slow, elapsed, pcalls) ==
    LET verdict == IF elapsed > slow_threshold THEN "True" ELSE "False"
    IN [ai_is_slow |-> verdict, ai_is_fast |-> (verdict = "False"),
        probed |-> TRUE,
        probeStrategy |-> classify_text(test_text, TRUE, 30),
        probeCalls |-> pcalls]

\* SmartFallbackProcessor.detect_ai_speed on a processor whose ai_is_slow is
\* `slow`; elapsed is the measured processing_time and pcalls the number of
\* model.generate calls the test made
detect_ai_speed(slow, elapsed, pcalls) ==
    IF slow # "None"
    THEN [ai_is_slow |-> slow, ai_is_fast |-> (slow = "False"),
          probed |-> FALSE, probeStrategy |-> "none", probeCalls |-> 0]
    ELSE LET verdict == IF elapsed > slow_threshold THEN "True" ELSE "False"
         IN [ai_is_slow |-> verdict, ai_is_fast |-> (verdict = "False"),
             probed |-> TRUE,
             probeStrategy |-> classify_text(test_text, TRUE, 30),
             probeCalls |-> pcalls]

\* the model.generate calls the speed test can make
ProbeModelCalls == AdaptiveModelCalls(classify_text(test_text, TRUE, 30), 1)

\* SmartFallbackProcessor.process_with_smart_fallback after detect_ai_speed
\* returned d: the string transform when not fast, otherwise
\* process_text_adaptive with quality_preference = 0.5
ServeRequest(d, slowBefore, text, tone, ultra_fast_mode, calls, via) ==
    IF ~d.ai_is_fast
    THEN [via |-> via, slowBefore |-> slowBefore, slowAfter |-> d.ai_is_slow,
          probed |-> d.probed, probeStrategy |-> d.probeStrategy,
          probeCalls |-> d.probeCalls,
          path |-> "string", strategy |-> "ultra_fast_string", modelCalls |-> 0]
    ELSE [via |-> via, slowBefore |-> slowBefore, slowAfter |-> d.ai_is_slow,
          probed |-> d.probed, probeStrategy |-> d.probeStrategy,
          probeCalls |-> d.probeCalls,
          path |-> "adaptive",
          strategy |-> classify_text(text, ultra_fast_mode, 50),
          modelCalls |-> calls]

\* the calls chosen for a request are ones the selected strategy can make on
\* a text of at most MaxChunks chunks
CallsPossible(text, ultra_fast_mode, calls) ==
    calls \in AdaptiveModelCalls(classify_text(text, ultra_fast_mode, 50), MaxChunks)

\* processor.process_with_smart_fallback(...) on the long-lived processor
MethodRequest(text, tone, ultra_fast_mode, elapsed, pcalls, calls) ==
    /\ requests < MaxRequests
    /\ CallsPossible(text, ultra_fast_mode, calls)
    /\ LET d == detect_ai_speed(ai_is_slow, elapsed, pcalls)
       IN /\ ai_is_slow' = d.ai_is_slow
          /\ probes' = IF d.probed THEN probes + 1 ELSE probes
          /\ firstVerdict' = IF d.probed /\ probes = 0 THEN d.ai_is_slow ELSE firstVerdict
          /\ lastReq' = ServeRequest(d, ai_is_slow, text, tone, ultra_fast_mode,
                                  calls, "method")
    /\ requests' = requests + 1
    /\ UNCHANGED <<modRequests, modProbes, nonGuardVars>>

\* the module-level process_with_smart_fallback(...): a new
\* SmartFallbackProcessor() (ai_is_slow = None) serves each call
ModuleRequest(text, tone, ultra_fast_mode, elapsed, pcalls, calls) ==
    /\ modRequests < MaxRequests
    /\ CallsPossible(text, ultra_fast_mode, calls)
    /\ LET d == detect_ai_speed("None", elapsed, pcalls)
       IN /\ modProbes' = IF d.probed THEN modProbes + 1 ELSE modProbes
          /\ lastReq' = ServeRequest(d, "None", text, tone, ultra_fast_mode,
                                  calls, "module")
    /\ modRequests' = modRequests + 1
    /\ UNCHANGED <<ai_is_slow, probes, requests, firstVerdict, nonGuardVars>>

NoRequest == [via |-> "none", slowBefore |-> "None", slowAfter |-> "None",
              probed |-> FALSE, probeStrategy |-> "none", probeCalls |-> 0,
              path |-> "none", strategy |-> "none", modelCalls |-> 0]

GuardInit ==
    /\ ai_is_slow = "None"
    /\ probes = 0
    /\ requests = 0
    /\ firstVerdict = "None"
    /\ lastReq = NoRequest
    /\ modRequests = 0
    /\ modProbes = 0

GuardNext ==
    \/ \E text \in GuardTexts, tone \in Tones, fast \in BOOLEAN, elapsed \in ProbeTimes,
          pcalls \in ProbeModelCalls, calls \in 0..MaxChunks :
          MethodRequest(text, tone, fast, elapsed, pcalls, calls)
    \/ \E text \in GuardTexts, tone \in Tones, fast \in BOOLEAN, elapsed \in ProbeTimes,
          pcalls \in ProbeModelCalls, calls \in 0..MaxChunks :
          ModuleRequest(text, tone, fast, elapsed, pcalls, calls)

(***************************************************************************)
(* Tone rewriter and results cache (utils/granite_helper.py)               *)
(*                                                                         *)
(* A text is a record: id names its content, lead/trail count its leading  *)
(* and trailing whitespace characters, len is the length of the stripped   *)
(* text, end the index of the last '.', '!' or '?' among its first 1500    *)
(* stripped characters (-1: none), cut tells how it was truncated.         *)
(* Generation is greedy (do_sample=False), so the model's continuation is  *)
(* a function of the prompt; whether a call succeeds, yields too little    *)
(* text or throws is the environment's choice.                             *)
(***************************************************************************)
\* if len(_text_cache) > 50
MaxCacheEntries == 50
\* preprocess_text(text, max_length=1500)
PreprocessMaxLength == 1500
\* if ultra_fast_mode and len(text) < 20
SuperFastLength == 20

\* the threads that call rewrite_with_tone: the caller's own thread (0) and
\* the pool threads of _process_chunks_concurrent (max_workers = 2)
MainThread == 0
Workers == {1, 2}
Callers == {MainThread} \cup Workers

TextShapes ==
    << [lead |-> 0, len |-> 12, trail |-> 0, end |-> 11],
       [lead |-> 0, len |-> 30, trail |-> 0, end |-> 29],
       [lead |-> 1, len |-> 30, trail |-> 0, end |-> 29],
       [lead |-> 0, len |-> 1600, trail |-> 0, end |-> 1400],
       [lead |-> 0, len |-> 1600, trail |-> 1, end |-> -1] >>

ToneCycle == <<"Neutral", "Suspenseful", "Inspiring">>

\* the requests callers make: request i is a fixed (text, tone, ultra_fast_mode)
\* triple; request 0 is a short text in ultra-fast mode
ReqText(i) ==
    LET sh == TextShapes[(i % 5) + 1]
    IN [id |-> i, lead |-> sh.lead, len |-> sh.len, trail |-> sh.trail,
        end |-> sh.end, cut |-> "none"]
ReqTone(i) == ToneCycle[(i % 3) + 1]
ReqFast(i) == IF i = 0 THEN TRUE ELSE IF i % 5 = 0 THEN FALSE ELSE i % 2 = 0
NoReq == -1

\* len(text)
TextLen(t) == t.lead + t.len + t.trail

\* tone.lower()
Lower(tone) ==
    IF tone = "Neutral" THEN "neutral"
    ELSE IF tone = "Suspenseful" THEN "suspenseful"
    ELSE IF tone = "Inspiring" THEN "inspiring"
    ELSE tone

\* preprocess_text: strip, then truncate texts longer than max_length at the
\* last sentence end if it lies beyond 0.7 * max_length, else hard cut + "..."
preprocess_text(text, max_length) ==
    LET stripped == [text EXCEPT !.lead = 0, !.trail = 0]
    IN IF stripped.len > max_length
       THEN IF 10 * stripped.end > 7 * max_length
            THEN [stripped EXCEPT !.len = stripped.end + 1, !.cut = "sentence"]
            ELSE [stripped EXCEPT !.len = max_length + 3, !.end = max_length + 2,
                                  !.cut = "hard"]
       ELSE stripped

\* values rewrite_with_tone returns
TextOut(t) == [kind |-> "text", src |-> t, tone |-> "-", mode |-> "-"]
NoText == [id |-> -1, lead |-> 0, len |-> 0, trail |-> 0, end |-> -1, cut |-> "none"]
NoOut == [kind |-> "none", src |-> NoText, tone |-> "-", mode |-> "-"]

\* simple_transforms.get(tone.lower(), text) (lines 365-370)
SimpleTransform(text, tone) ==
    IF Lower(tone) \in {"suspenseful", "inspiring", "neutral"}
    THEN [kind |-> "simple", src |-> text, tone |-> Lower(tone), mode |-> "-"]
    ELSE TextOut(text)

\* the cleaned continuation of the model for the prompt built from the
\* preprocessed text, the tone and the mode (lines 375-525)
GeneratedRewrite(text, tone, ultra_fast_mode) ==
    [kind |-> "generated", src |-> text, tone |-> Lower(tone),
     mode |-> IF ultra_fast_mode THEN "fast" ELSE "quality"]

\* the basic tone transformation when every extraction fails (lines 538-546)
FallbackTransform(text, tone) ==
    IF Lower(tone) \in {"suspenseful", "inspiring"}
    THEN [kind |-> "fallback", src |-> text, tone |-> Lower(tone), mode |-> "-"]
    ELSE TextOut(text)

\* cache_key = md5(f"{text}_{tone}_{ultra_fast_mode}"): the digest of the
\* joined triple, which the three fixed tone names make injective
cache_key(text, tone, ultra_fast_mode) == <<text, tone, ultra_fast_mode>>
NoKey == <<NoText, "-", FALSE>>

\* cache_key in _text_cache
CacheHas(cache, key) == \E k \in 1..Len(cache) : cache[k].key = key
\* _text_cache[cache_key]
CacheGet(cache, key) == cache[CHOOSE k \in 1..Len(cache) : cache[k].key = key].val
\* a store that forgets to cache the rewrite
CacheStore_NotStored(cache, key, val, stamp) == cache

\* _text_cache[cache_key] = rewritten: a new key goes last, an existing key
\* keeps its place
CacheStore(cache, key, val, stamp) ==
    IF CacheHas(cache, key)
    THEN [k \in 1..Len(cache) |->
            IF cache[k].key = key THEN [cache[k] EXCEPT !.val = val] ELSE cache[k]]
    ELSE Append(cache, [key |-> key, val |-> val, stamp |-> stamp])
\* an eviction that picks the newest entry instead of the oldest
CacheFirstKey_Newest(cache) == cache[Len(cache)].key

\* next(iter(_text_cache))
CacheFirstKey(cache) == cache[1].key
\* del _text_cache[oldest_key]
CacheDel(cache, key) ==
    LET Keep(e) == e.key # key IN SelectSeq(cache, Keep)

ModelOutcomes == {"ok", "short", "throw"}

ReqKey(i) == cache_key(ReqText(i), ReqTone(i), ReqFast(i))
ReqPre(i) == preprocess_text(ReqText(i), PreprocessMaxLength)

AllIdle == \A w \in Callers : wpc[w] = "idle"

\* the largest request stored so far; callers draw the next unused request,
\* the first request, the short request or their own previous request
RECURSIVE MaxStoredId(_, _, _)
MaxStoredId(cache, k, m) ==
    IF k > Len(cache) THEN m
    ELSE MaxStoredId(cache, k + 1, IF cache[k].key[1].id > m THEN cache[k].key[1].id ELSE m)
StoredMax == MaxStoredId(text_cache, 1, 0)
Candidates(w) ==
    {i \in {0, 1, StoredMax + 1, wret[w].req} : i >= 0 /\ i <= MaxKeys}

CallChoices(w) == IF wpc[w] = "idle" THEN Candidates(w) ELSE {}

\* rewrite_with_tone returns (or raises) in thread w
Return(w, out, path, called, raised) ==
    /\ wret' = [wret EXCEPT ![w] = [req |-> wreq[w], out |-> out, path |-> path,
                                    modelCalled |-> called, raised |-> raised]]
    /\ wprev' = [wprev EXCEPT ![w] = wret[w]]
    /\ wpc' = [wpc EXCEPT ![w] = "idle"]
    /\ wreq' = [wreq EXCEPT ![w] = NoReq]

\* thread w enters rewrite_with_tone(text, tone, tokenizer, model, flag); a
\* pool thread does so for the next chunk it takes from the executor's queue
Call(w, i) ==
    /\ wpc[w] = "idle"
    /\ i \in Candidates(w)
    /\ w \in Workers => poolWork > 0
    /\ poolWork' = IF w \in Workers THEN poolWork - 1 ELSE poolWork
    /\ wreq' = [wreq EXCEPT ![w] = i]
    /\ wpc' = [wpc EXCEPT ![w] = "lookup"]
    /\ UNCHANGED <<text_cache, iter_used, oldest_key, wret, wprev, clock,
                   evictedStamp, nonCacheVars>>

\* line 351: if cache_key in _text_cache
Lookup(w) ==
    /\ wpc[w] = "lookup"
    /\ wpc' = [wpc EXCEPT ![w] =
                 IF CacheHas(text_cache, ReqKey(wreq[w])) THEN "hit" ELSE "generate"]
    /\ UNCHANGED <<text_cache, wreq, iter_used, oldest_key, wret, wprev, clock,
                   evictedStamp, poolWork, nonCacheVars>>

\* line 353: return _text_cache[cache_key] (outside the try block: a missing
\* key raises KeyError out of rewrite_with_tone)
HitReturn(w) ==
    /\ wpc[w] = "hit"
    /\ IF CacheHas(text_cache, ReqKey(wreq[w]))
       THEN Return(w, CacheGet(text_cache, ReqKey(wreq[w])), "hit", FALSE, FALSE)
       ELSE Return(w, NoOut, "keyerror", FALSE, TRUE)
    /\ UNCHANGED <<text_cache, iter_used, oldest_key, clock, evictedStamp, poolWork,
                   nonCacheVars>>

\* lines 355-565: preprocess, the short-text shortcut, the model call and its
\* extraction, and the store of a successful rewrite into the cache
Generate(w, outcome) ==
    /\ wpc[w] = "generate"
    /\ LET i == wreq[w]
           text == ReqPre(i)
       IN IF ReqFast(i) /\ TextLen(text) < SuperFastLength
          THEN /\ outcome = "ok"
               /\ Return(w, SimpleTransform(text, ReqTone(i)), "superfast", FALSE, FALSE)
               /\ UNCHANGED <<text_cache, clock>>
          ELSE IF outcome = "throw"
          THEN /\ Return(w, TextOut(text), "failure", TRUE, FALSE)
               /\ UNCHANGED <<text_cache, clock>>
          ELSE IF outcome = "short"
          THEN /\ Return(w, FallbackTransform(text, ReqTone(i)), "fallback", TRUE, FALSE)
               /\ UNCHANGED <<text_cache, clock>>
          ELSE /\ text_cache' = CacheStore(text_cache, ReqKey(i),
                                    GeneratedRewrite(text, ReqTone(i), ReqFast(i)),
                                    clock + 1)
               /\ clock' = IF CacheHas(text_cache, ReqKey(i)) THEN clock ELSE clock + 1
               /\ wpc' = [wpc EXCEPT ![w] = "size"]
               /\ UNCHANGED <<wreq, wret, wprev>>
    /\ UNCHANGED <<iter_used, oldest_key, evictedStamp, poolWork, nonCacheVars>>

\* the value line 572 returns
Rewrite(w) == GeneratedRewrite(ReqPre(wreq[w]), ReqTone(wreq[w]), ReqFast(wreq[w]))

\* line 567: if len(_text_cache) > 50, else line 572: return rewritten
CheckSize(w) ==
    /\ wpc[w] = "size"
    /\ IF Len(text_cache) > MaxCacheEntries
       THEN /\ wpc' = [wpc EXCEPT ![w] = "iter"]
            /\ UNCHANGED <<wreq, wret, wprev>>
       ELSE Return(w, Rewrite(w), "generated", TRUE, FALSE)
    /\ UNCHANGED <<text_cache, iter_used, oldest_key, clock, evictedStamp, poolWork,
                   nonCacheVars>>

\* line 569: iter(_text_cache) notes the size of the dict
Iter(w) ==
    /\ wpc[w] = "iter"
    /\ iter_used' = [iter_used EXCEPT ![w] = Len(text_cache)]
    /\ wpc' = [wpc EXCEPT ![w] = "next"]
    /\ UNCHANGED <<text_cache, wreq, oldest_key, wret, wprev, clock, evictedStamp,
                   poolWork, nonCacheVars>>

\* line 569: next(...) raises RuntimeError when the dict changed size since
\* iter(); line 574 catches it and returns the preprocessed text
NextKey(w) ==
    /\ wpc[w] = "next"
    /\ IF Len(text_cache) # iter_used[w]
       THEN /\ Return(w, TextOut(ReqPre(wreq[w])), "cache_error", TRUE, FALSE)
            /\ UNCHANGED oldest_key
       ELSE /\ oldest_key' = [oldest_key EXCEPT ![w] = CacheFirstKey(text_cache)]
            /\ wpc' = [wpc EXCEPT ![w] = "del"]
            /\ UNCHANGED <<wreq, wret, wprev>>
    /\ UNCHANGED <<text_cache, iter_used, clock, evictedStamp, poolWork, nonCacheVars>>

\* line 570: del _text_cache[oldest_key], then line 572; a KeyError is caught
\* at line 574, which returns the preprocessed text
DelOldest(w) ==
    /\ wpc[w] = "del"
    /\ IF CacheHas(text_cache, oldest_key[w])
       THEN /\ text_cache' = CacheDel(text_cache, oldest_key[w])
            /\ evictedStamp' =
                 text_cache[CHOOSE k \in 1..Len(text_cache) :
                               text_cache[k].key = oldest_key[w]].stamp
            /\ Return(w, Rewrite(w), "generated", TRUE, FALSE)
       ELSE /\ Return(w, TextOut(ReqPre(wreq[w])), "cache_error", TRUE, FALSE)
            /\ UNCHANGED <<text_cache, evictedStamp>>
    /\ UNCHANGED <<iter_used, oldest_key, clock, poolWork, nonCacheVars>>

NoCall == [req |-> NoReq, out |-> NoOut, path |-> "none", modelCalled |-> FALSE,
           raised |-> FALSE]

CacheInit ==
    /\ text_cache = <<>>
    /\ wpc = [w \in Callers |-> "idle"]
    /\ wreq = [w \in Callers |-> NoReq]
    /\ iter_used = [w \in Callers |-> 0]
    /\ oldest_key = [w \in Callers |-> NoKey]
    /\ wret = [w \in Callers |-> NoCall]
    /\ wprev = [w \in Callers |-> NoCall]
    /\ clock = 0
    /\ evictedStamp = 0
    /\ poolWork = 0

\* the cache after sequential successful calls for requests 1..n (n <= 50)
WarmCache(n) ==
    [k \in 1..n |-> [key |-> ReqKey(k),
                     val |-> GeneratedRewrite(ReqPre(k), ReqTone(k), ReqFast(k)),
                     stamp |-> k]]

\* the state in which _process_chunks_concurrent starts its pool: new threads,
\* MaxChunks chunks submitted, and a cache that earlier sequential requests
\* 1..RaceWarm have filled
RaceInit ==
    /\ text_cache = WarmCache(RaceWarm)
    /\ wpc = [w \in Callers |-> "idle"]
    /\ wreq = [w \in Callers |-> NoReq]
    /\ iter_used = [w \in Callers |-> 0]
    /\ oldest_key = [w \in Callers |-> NoKey]
    /\ wret = [w \in Callers |-> NoCall]
    /\ wprev = [w \in Callers |-> NoCall]
    /\ clock = RaceWarm
    /\ evictedStamp = 0
    /\ poolWork = MaxChunks

\* sequential callers: every call runs to completion before the next starts
CacheNext ==
    \/ \E i \in CallChoices(MainThread) : Call(MainThread, i)
    \/ Lookup(MainThread)
    \/ HitReturn(MainThread)
    \/ \E o \in ModelOutcomes : Generate(MainThread, o)
    \/ CheckSize(MainThread)
    \/ Iter(MainThread)
    \/ NextKey(MainThread)
    \/ DelOldest(MainThread)

\* two pool threads of _process_chunks_concurrent inside rewrite_with_tone
RaceNext ==
    \/ \E w \in Workers : \E i \in CallChoices(w) : Call(w, i)
    \/ \E w \in Workers : Lookup(w)
    \/ \E w \in Workers : HitReturn(w)
    \/ \E w \in Workers, o \in ModelOutcomes : Generate(w, o)
    \/ \E w \in Workers : CheckSize(w)
    \/ \E w \in Workers : Iter(w)
    \/ \E w \in Workers : NextKey(w)
    \/ \E w \in Workers : DelOldest(w)

(***************************************************************************)
(* Document chunker (utils/chunking_strategy.py)                           *)
(* A text is a sequence of tokens; a token is a word (a run of letters),   *)
(* one whitespace character or one punctuation character.  Every operation *)
(* of the chunker cuts and joins a text between tokens, so the lengths and *)
(* the contents computed here are those of the strings.                    *)
(***************************************************************************)
Whitespace == {" ", "\n"}
SentenceEnders == {".", "!", "?"}
Punctuation == SentenceEnders \cup {",", ";"}
\* the alternatives of the pattern in _chunk_long_sentence (matched ignoring
\* case; the texts used here carry them in lower case)
Conjunctions == {"and", "or", "but", "yet", "so", "because", "although", "while",
                 "since", "if", "when", "where"}
IsWord(tok) == tok \notin (Whitespace \cup Punctuation)

MinOf(S) == CHOOSE x \in S : \A y \in S : x <= y
MaxOf(S) == CHOOSE x \in S : \A y \in S : y <= x

\* len(text[lo..hi]), the number of characters
RECURSIVE SumLen(_, _, _)
SumLen(text, lo, hi) ==
    IF lo > hi THEN 0
    ELSE IF lo = hi THEN Len(text[lo])
    ELSE LET mid == (lo + hi) \div 2
         IN SumLen(text, lo, mid) + SumLen(text, mid + 1, hi)

\* len(text)
StrLen(text) == SumLen(text, 1, Len(text))

\* str.strip()
Strip(text) ==
    LET keep == {i \in DOMAIN text : text[i] \notin Whitespace}
    IN IF keep = {} THEN <<>> ELSE SubSeq(text, MinOf(keep), MaxOf(keep))

\* str.split(sep) and re.split: the pieces of text around the separators,
\* given as a set of disjoint <<first, last>> position pairs
SplitAt(text, seps) ==
    LET n == Cardinality(seps)
        nth(k) == CHOOSE s \in seps : Cardinality({r \in seps : r[1] < s[1]}) = k - 1
        from(k) == IF k = 1 THEN 1 ELSE nth(k - 1)[2] + 1
        to(k) == IF k = n + 1 THEN Len(text) ELSE nth(k)[1] - 1
    IN [k \in 1..(n + 1) |-> SubSeq(text, from(k), to(k))]

\* the positions of text holding one of the characters in chars, as separators
Occurrences(text, chars) == {<<i, i>> : i \in {p \in DOMAIN text : text[p] \in chars}}

NonEmpty(piece) == piece # <<>>

\* [p.strip() for p in pieces if p.strip()]
StripNonEmpty(pieces) ==
    SelectSeq([k \in DOMAIN pieces |-> Strip(pieces[k])], NonEmpty)

\* str.split(): the maximal runs without whitespace
Words(text) == SelectSeq(SplitAt(text, Occurrences(text, Whitespace)), NonEmpty)

\* len(text.split())
WordCount(text) ==
    Cardinality({i \in DOMAIN text :
                   text[i] \notin Whitespace /\ (i = 1 \/ text[i - 1] \in Whitespace)})

\* sep.join(parts)
RECURSIVE Join(_, _)
Join(parts, sep) ==
    IF parts = <<>> THEN <<>>
    ELSE IF Len(parts) = 1 THEN parts[1]
    ELSE Join(SubSeq(parts, 1, Len(parts) - 1), sep) \o sep \o parts[Len(parts)]

\* len(sentence_endings.findall(text)): the runs of [.!?] that are followed by
\* whitespace or end the text
SentenceCount(text) ==
    Cardinality({i \in DOMAIN text :
                   text[i] \in SentenceEnders
                   /\ (i = Len(text) \/ text[i + 1] \in Whitespace)})

\* the positions of the whitespace run around position i
WsRun(text, i) ==
    {j \in DOMAIN text :
        \A k \in (IF i < j THEN i ELSE j)..(IF i < j THEN j ELSE i) :
            text[k] \in Whitespace}

\* the matches of paragraph_break (\n\s*\n): in a whitespace run with two or
\* more newlines, from its first newline to its last
ParagraphBreaks(text) ==
    LET newlines == {p \in DOMAIN text : text[p] = "\n"}
        runs == {{j \in WsRun(text, i) : text[j] = "\n"} : i \in newlines}
    IN {<<MinOf(nl), MaxOf(nl)>> : nl \in {r \in runs : Cardinality(r) >= 2}}

\* DocumentChunker.analyze_text_structure, the entries smart_chunk reads
analyze_text_structure(text) ==
    [text_length |-> StrLen(text),
     word_count |-> WordCount(text),
     sentence_count |-> SentenceCount(text),
     paragraph_count |-> Cardinality(ParagraphBreaks(text)) + 1]

\* one entry of a chunk list
Chunk(text, index, type) == [text |-> text, index |-> index, type |-> type]

\* the locals `chunks` and `chunk_index` of a chunking method, at its start
NoChunks == [chunks |-> <<>>, chunk_index |-> 0]

\* variant: the append without chunk_index += 1
AddChunk_IndexNotAdvanced(chunklist, text, type) ==
    [chunks |-> Append(chunklist.chunks, Chunk(text, chunklist.chunk_index, type)),
     chunk_index |-> chunklist.chunk_index]

\* chunks.append({... 'index': chunk_index ...}); chunk_index += 1
AddChunk(chunklist, text, type) ==
    [chunks |-> Append(chunklist.chunks, Chunk(text, chunklist.chunk_index, type)),
     chunk_index |-> chunklist.chunk_index + 1]

\* the same for each text of a list in turn
RECURSIVE AddChunks(_, _, _)
AddChunks(chunklist, texts, type) ==
    IF texts = <<>> THEN chunklist
    ELSE AddChunk(AddChunks(chunklist, SubSeq(texts, 1, Len(texts) - 1), type),
                  texts[Len(texts)], type)

\* what a chunking method hands back: its chunk list, or the ValueError it raised
Returned(chunklist) == [raised |-> FALSE, chunks |-> chunklist.chunks]
Raised == [raised |-> TRUE, chunks |-> <<>>]

\* a conjunction standing as a whole word (\b on both sides) at position p
IsConjunctionAt(text, p) ==
    /\ text[p] \in Conjunctions
    /\ p = 1 \/ ~IsWord(text[p - 1])
    /\ p = Len(text) \/ ~IsWord(text[p + 1])

\* the word windows of the last resort: ' '.join(words[i:i + target_words])
WordWindows(words, target_words) ==
    LET n == Len(words)
        count == (n + target_words - 1) \div target_words
    IN [k \in 1..count |->
          Join(SubSeq(words, (k - 1) * target_words + 1,
                      IF k * target_words < n THEN k * target_words ELSE n),
               <<" ">>)]

\* DocumentChunker._chunk_long_sentence; range() raises ValueError on a zero step
chunk_long_sentence(sentence, max_chunk_size) ==
    LET by_commas == StripNonEmpty(SplitAt(sentence, Occurrences(sentence, {","})))
        conj == {<<p, p>> : p \in {q \in DOMAIN sentence : IsConjunctionAt(sentence, q)}}
        by_conjunctions == StripNonEmpty(SplitAt(sentence, conj))
        parts == IF Len(by_commas) = 1 THEN by_conjunctions ELSE by_commas
        target_words == max_chunk_size \div 6
    IN IF Len(parts) # 1 THEN [raised |-> FALSE, parts |-> parts]
       ELSE IF target_words = 0 THEN [raised |-> TRUE, parts |-> <<>>]
       ELSE [raised |-> FALSE, parts |-> WordWindows(Words(sentence), target_words)]

\* the list `sentences` of _chunk_by_sentences (line 137)
Sentences(text) ==
    LET dotted == [i \in DOMAIN text |->
                     IF text[i] \in {"!", "?"} THEN "." ELSE text[i]]
        pieces == StripNonEmpty(SplitAt(dotted, Occurrences(dotted, {"."})))
    IN [k \in DOMAIN pieces |-> Append(pieces[k], ".")]

\* the loop of _chunk_by_sentences from sentence k on, and its tail
RECURSIVE SentenceLoop(_, _, _, _, _)
SentenceLoop(sentences, k, current_chunk, chunklist, max_chunk_size) ==
    IF k > Len(sentences)
    THEN Returned(IF current_chunk # <<>>
                  THEN AddChunk(chunklist, current_chunk, "sentence")
                  ELSE chunklist)
    ELSE LET sentence == sentences[k]
             test_chunk == Strip(current_chunk \o <<" ">> \o sentence)
             saved == IF current_chunk # <<>>
                      THEN AddChunk(chunklist, current_chunk, "sentence")
                      ELSE chunklist
             sub_chunks == chunk_long_sentence(sentence, max_chunk_size)
         IN IF StrLen(test_chunk) <= max_chunk_size
            THEN SentenceLoop(sentences, k + 1, test_chunk, chunklist, max_chunk_size)
            ELSE IF StrLen(sentence) > max_chunk_size
            THEN IF sub_chunks.raised THEN Raised
                 ELSE SentenceLoop(sentences, k + 1, <<>>,
                                   AddChunks(saved, sub_chunks.parts, "sub_sentence"),
                                   max_chunk_size)
            ELSE SentenceLoop(sentences, k + 1, sentence, saved, max_chunk_size)

\* DocumentChunker._chunk_by_sentences
chunk_by_sentences(text, max_chunk_size) ==
    SentenceLoop(Sentences(text), 1, <<>>, NoChunks, max_chunk_size)

\* the loop of _chunk_by_paragraphs from paragraph k on, and its tail
RECURSIVE ParagraphLoop(_, _, _, _, _)
ParagraphLoop(paragraphs, k, current_chunk, chunklist, max_chunk_size) ==
    IF k > Len(paragraphs)
    THEN Returned(IF current_chunk # <<>>
                  THEN AddChunk(chunklist, current_chunk, "paragraph")
                  ELSE chunklist)
    ELSE LET para == Strip(paragraphs[k])
             saved == IF current_chunk # <<>>
                      THEN AddChunk(chunklist, current_chunk, "paragraph")
                      ELSE chunklist
             sentence_chunks == chunk_by_sentences(para, max_chunk_size)
             texts == [j \in DOMAIN sentence_chunks.chunks |->
                         sentence_chunks.chunks[j].text]
         IN IF para = <<>>
            THEN ParagraphLoop(paragraphs, k + 1, current_chunk, chunklist,
                               max_chunk_size)
            ELSE IF StrLen(current_chunk \o para) <= max_chunk_size
            THEN ParagraphLoop(paragraphs, k + 1,
                               current_chunk
                                 \o (IF current_chunk # <<>> THEN <<"\n", "\n">> ELSE <<>>)
                                 \o para,
                               chunklist, max_chunk_size)
            ELSE IF StrLen(para) > max_chunk_size
            THEN IF sentence_chunks.raised THEN Raised
                 ELSE ParagraphLoop(paragraphs, k + 1, <<>>,
                                    AddChunks(saved, texts, "paragraph_sentence"),
                                    max_chunk_size)
            ELSE ParagraphLoop(paragraphs, k + 1, para, saved, max_chunk_size)

\* DocumentChunker._chunk_by_paragraphs
chunk_by_paragraphs(text, max_chunk_size) ==
    ParagraphLoop(SplitAt(text, ParagraphBreaks(text)), 1, <<>>, NoChunks, max_chunk_size)

\* the loop of _split_by_commas from part k on, and its tail
RECURSIVE CommaLoop(_, _, _, _, _)
CommaLoop(parts, k, current_chunk, out, max_chunk_size) ==
    IF k > Len(parts)
    THEN IF current_chunk # <<>> THEN Append(out, current_chunk) ELSE out
    ELSE LET part == parts[k]
             test_chunk == IF current_chunk # <<>>
                           THEN Strip(current_chunk \o <<",">> \o part)
                           ELSE part
         IN IF StrLen(test_chunk) <= max_chunk_size
            THEN CommaLoop(parts, k + 1, test_chunk, out, max_chunk_size)
            ELSE CommaLoop(parts, k + 1, part,
                           IF current_chunk # <<>> THEN Append(out, current_chunk)
                           ELSE out,
                           max_chunk_size)

\* DocumentChunker._split_by_commas
split_by_commas(text, max_chunk_size) ==
    CommaLoop(StripNonEmpty(SplitAt(text, Occurrences(text, {","}))), 1, <<>>, <<>>,
              max_chunk_size)

\* the loop of _chunk_by_semantic_boundaries from clause k on, and its tail
RECURSIVE ClauseLoop(_, _, _, _, _)
ClauseLoop(clauses, k, current_chunk, chunklist, max_chunk_size) ==
    IF k > Len(clauses)
    THEN Returned(IF current_chunk # <<>>
                  THEN AddChunk(chunklist, current_chunk, "semantic")
                  ELSE chunklist)
    ELSE LET clause == Strip(clauses[k])
             saved == IF current_chunk # <<>>
                      THEN AddChunk(chunklist, current_chunk, "semantic")
                      ELSE chunklist
         IN IF clause = <<>>
            THEN ClauseLoop(clauses, k + 1, current_chunk, chunklist, max_chunk_size)
            ELSE IF StrLen(current_chunk \o clause) <= max_chunk_size
            THEN ClauseLoop(clauses, k + 1,
                            current_chunk
                              \o (IF current_chunk # <<>> THEN <<";">> ELSE <<>>)
                              \o clause,
                            chunklist, max_chunk_size)
            ELSE IF StrLen(clause) > max_chunk_size
            THEN ClauseLoop(clauses, k + 1, <<>>,
                            AddChunks(saved, split_by_commas(clause, max_chunk_size),
                                      "comma_split"),
                            max_chunk_size)
            ELSE ClauseLoop(clauses, k + 1, clause, saved, max_chunk_size)

\* DocumentChunker._chunk_by_semantic_boundaries
chunk_by_semantic_boundaries(text, max_chunk_size) ==
    ClauseLoop(SplitAt(text, Occurrences(text, {";"})), 1, <<>>, NoChunks, max_chunk_size)

\* variant: paragraph-level chunking for any text with more than one paragraph
ChunkingMethod_AnyParagraphs(analysis, max_chunk_size) ==
    IF analysis.text_length < max_chunk_size THEN "single"
    ELSE IF analysis.paragraph_count > 1 THEN "paragraphs"
    ELSE IF 5 * analysis.word_count
              < 4 * max_chunk_size * (IF analysis.sentence_count > 1
                                      THEN analysis.sentence_count ELSE 1)
    THEN "sentences"
    ELSE "semantic"

\* the choice of smart_chunk (lines 77-86).  avg_paragraph_length < max * 1.5 is
\* text_length / paragraph_count < 3 * max / 2, and avg_sentence_length <
\* max * 0.8 is word_count / max(sentence_count, 1) < 4 * max / 5
ChunkingMethod(analysis, max_chunk_size) ==
    IF analysis.text_length < max_chunk_size THEN "single"
    ELSE IF analysis.paragraph_count > 1
            /\ 2 * analysis.text_length < 3 * max_chunk_size * analysis.paragraph_count
    THEN "paragraphs"
    ELSE IF 5 * analysis.word_count
              < 4 * max_chunk_size * (IF analysis.sentence_count > 1
                                      THEN analysis.sentence_count ELSE 1)
    THEN "sentences"
    ELSE "semantic"

\* variant: no single-chunk shortcut for a text below max_chunk_size
smart_chunk_NeverSingle(text, max_chunk_size) ==
    chunk_by_sentences(text, max_chunk_size)

\* DocumentChunker.smart_chunk
smart_chunk(text, max_chunk_size) ==
    LET method == ChunkingMethod(analyze_text_structure(text), max_chunk_size)
    IN IF method = "single"
       THEN [raised |-> FALSE, chunks |-> <<Chunk(text, 0, "single")>>]
       ELSE IF method = "paragraphs" THEN chunk_by_paragraphs(text, max_chunk_size)
       ELSE IF method = "sentences" THEN chunk_by_sentences(text, max_chunk_size)
       ELSE chunk_by_semantic_boundaries(text, max_chunk_size)

\* the loop of optimize_chunk_sizes from chunk k on (current_chunk is set)
RECURSIVE OptimizeLoop(_, _, _, _, _, _)
OptimizeLoop(chunklist, k, current_chunk, optimized, min_chunk_size, max_chunk_size) ==
    IF k > Len(chunklist) THEN Append(optimized, current_chunk)
    ELSE LET chunk == chunklist[k]
             merged_text == current_chunk.text \o <<" ">> \o chunk.text
         IN IF StrLen(current_chunk.text) < min_chunk_size
               /\ StrLen(merged_text) <= max_chunk_size
            THEN OptimizeLoop(chunklist, k + 1,
                              [current_chunk EXCEPT !.text = merged_text,
                                                    !.type = "merged"],
                              optimized, min_chunk_size, max_chunk_size)
            ELSE OptimizeLoop(chunklist, k + 1, chunk,
                              Append(optimized, current_chunk),
                              min_chunk_size, max_chunk_size)

\* variant: no merging, only the renumbering
optimize_chunk_sizes_NoMerge(chunklist, min_chunk_size, max_chunk_size) ==
    [i \in DOMAIN chunklist |-> [chunklist[i] EXCEPT !.index = i - 1]]

\* DocumentChunker.optimize_chunk_sizes, indices renumbered at the end
optimize_chunk_sizes(chunklist, min_chunk_size, max_chunk_size) ==
    IF chunklist = <<>> THEN chunklist
    ELSE LET optimized == OptimizeLoop(chunklist, 2, chunklist[1], <<>>,
                                       min_chunk_size, max_chunk_size)
         IN [i \in DOMAIN optimized |-> [optimized[i] EXCEPT !.index = i - 1]]

\* DocumentChunker.__init__ defaults, and the instance of _process_chunked
DefaultChunker == [max_chunk_size |-> 200, min_chunk_size |-> 50, overlap |-> 30]

\* chunkers with small limits, for the texts of SmallTexts
SmallChunkers == {[max_chunk_size |-> 2, min_chunk_size |-> 1, overlap |-> 1],
                  [max_chunk_size |-> 4, min_chunk_size |-> 2, overlap |-> 1],
                  [max_chunk_size |-> 6, min_chunk_size |-> 3, overlap |-> 2]}

\* the tokens of the small texts: a word, a conjunction, both whitespace
\* characters and the punctuation the chunker looks at
ChunkVocabulary == {"ab", "or", " ", "\n", ".", "!", ",", ";"}

\* every text of at most MaxTokens tokens over the vocabulary
SmallTexts == UNION {[1..n -> ChunkVocabulary] : n \in 0..MaxTokens}

\* the first text of test_texts in test_rewriting.py
ShortScenarioText ==
    <<"Artificial", " ", "intelligence", " ", "is", " ", "transforming", " ",
      "our", " ", "world", ".">>

EvenParagraphsText ==
    <<"Artificial", " ", "intelligence", " ", "is", " ", "transforming", " ",
      "our", " ", "world", ".", " ", "Smart", " ", "homes", " ",
      "anticipate", " ", "our", " ", "needs", ",", " ", "self-driving", " ",
      "cars", " ", "navigate", " ", "complex", " ", "traffic", ",", " ",
      "and", " ", "machine", " ", "learning", " ", "algorithms", " ",
      "process", " ", "vast", " ", "amounts", " ", "of", " ", "data", " ",
      "to", " ", "identify", " ", "patterns", " ", "that", " ", "were", " ",
      "impossible", " ", "just", " ", "a", " ", "few", " ", "years", " ",
      "ago", ".", " ", "The", " ", "future", " ", "of", " ", "technology",
      " ", "is", " ", "bright", " ", "with", " ", "endless", " ",
      "possibilities", " ", "for", " ", "innovation", " ", "and", " ",
      "growth", ".", " ", "Machine", " ", "learning", " ", "models", " ",
      "are", " ", "becoming", " ", "more", " ", "sophisticated", " ",
      "every", " ", "day", ",", " ", "enabling", " ", "new", " ",
      "breakthroughs", " ", "in", " ", "healthcare", ",", " ", "education",
      ",", " ", "and", " ", "scientific", " ", "research", ".", "\n", "\n",
      "These", " ", "technological", " ", "advances", " ", "are", " ",
      "creating", " ", "opportunities", " ", "we", " ", "never", " ",
      "thought", " ", "possible", " ", "just", " ", "a", " ", "decade", " ",
      "ago", ".", " ", "The", " ", "future", " ", "of", " ", "technology",
      " ", "is", " ", "bright", " ", "with", " ", "endless", " ",
      "possibilities", " ", "for", " ", "innovation", " ", "and", " ",
      "growth", ".", " ", "Smart", " ", "homes", " ", "anticipate", " ",
      "our", " ", "needs", ",", " ", "self-driving", " ", "cars", " ",
      "navigate", " ", "complex", " ", "traffic", ",", " ", "and", " ",
      "machine", " ", "learning", " ", "algorithms", " ", "process", " ",
      "vast", " ", "amounts", " ", "of", " ", "data", " ", "to", " ",
      "identify", " ", "patterns", " ", "that", " ", "were", " ",
      "impossible", " ", "just", " ", "a", " ", "few", " ", "years", " ",
      "ago", ".", " ", "Artificial", " ", "intelligence", " ", "is", " ",
      "transforming", " ", "our", " ", "world", ".", " ", "These", " ",
      "technological", " ", "advances", " ", "are", " ", "creating", " ",
      "opportunities", " ", "we", " ", "never", " ", "thought", " ",
      "possible", " ", "just", " ", "a", " ", "decade", " ", "ago", ".",
      "\n", "\n", "Machine", " ", "learning", " ", "models", " ", "are", " ",
      "becoming", " ", "more", " ", "sophisticated", " ", "every", " ",
      "day", ",", " ", "enabling", " ", "new", " ", "breakthroughs", " ",
      "in", " ", "healthcare", ",", " ", "education", ",", " ", "and", " ",
      "scientific", " ", "research", ".", " ", "These", " ", "technological",
      " ", "advances", " ", "are", " ", "creating", " ", "opportunities",
      " ", "we", " ", "never", " ", "thought", " ", "possible", " ", "just",
      " ", "a", " ", "decade", " ", "ago", ".", " ", "Artificial", " ",
      "intelligence", " ", "is", " ", "transforming", " ", "our", " ",
      "world", ".", " ", "Smart", " ", "homes", " ", "anticipate", " ",
      "our", " ", "needs", ",", " ", "self-driving", " ", "cars", " ",
      "navigate", " ", "complex", " ", "traffic", ",", " ", "and", " ",
      "machine", " ", "learning", " ", "algorithms", " ", "process", " ",
      "vast", " ", "amounts", " ", "of", " ", "data", " ", "to", " ",
      "identify", " ", "patterns", " ", "that", " ", "were", " ",
      "impossible", " ", "just", " ", "a", " ", "few", " ", "years", " ",
      "ago", ".", " ", "The", " ", "future", " ", "of", " ", "technology",
      " ", "is", " ", "bright", " ", "with", " ", "endless", " ",
      "possibilities", " ", "for", " ", "innovation", " ", "and", " ",
      "growth", ".", "\n", "\n", "The", " ", "future", " ", "of", " ",
      "technology", " ", "is", " ", "bright", " ", "with", " ", "endless",
      " ", "possibilities", " ", "for", " ", "innovation", " ", "and", " ",
      "growth", ".", " ", "Machine", " ", "learning", " ", "models", " ",
      "are", " ", "becoming", " ", "more", " ", "sophisticated", " ",
      "every", " ", "day", ",", " ", "enabling", " ", "new", " ",
      "breakthroughs", " ", "in", " ", "healthcare", ",", " ", "education",
      ",", " ", "and", " ", "scientific", " ", "research", ".", " ", "These",
      " ", "technological", " ", "advances", " ", "are", " ", "creating",
      " ", "opportunities", " ", "we", " ", "never", " ", "thought", " ",
      "possible", " ", "just", " ", "a", " ", "decade", " ", "ago", ".", " ",
      "Smart", " ", "homes", " ", "anticipate", " ", "our", " ", "needs",
      ",", " ", "self-driving", " ", "cars", " ", "navigate", " ", "complex",
      " ", "traffic", ",", " ", "and", " ", "machine", " ", "learning", " ",
      "algorithms", " ", "process", " ", "vast", " ", "amounts", " ", "of",
      " ", "data", " ", "to", " ", "identify", " ", "patterns", " ", "that",
      " ", "were", " ", "impossible", " ", "just", " ", "a", " ", "few", " ",
      "years", " ", "ago", ".", " ", "Progress", " ", "continues", " ",
      "every", " ", "every", " ", "every", ".">>

UnevenParagraphsText ==
    <<"Artificial", " ", "intelligence", " ", "is", " ", "transforming", " ",
      "our", " ", "world", ".", "\n", "\n", "Smart", " ", "homes", " ",
      "anticipate", " ", "our", " ", "needs", ",", " ", "self-driving", " ",
      "cars", " ", "navigate", " ", "complex", " ", "traffic", ",", " ",
      "and", " ", "machine", " ", "learning", " ", "algorithms", " ",
      "process", " ", "vast", " ", "amounts", " ", "of", " ", "data", " ",
      "to", " ", "identify", " ", "patterns", " ", "that", " ", "were", " ",
      "impossible", " ", "just", " ", "a", " ", "few", " ", "years", " ",
      "ago", ".", " ", "Machine", " ", "learning", " ", "models", " ", "are",
      " ", "becoming", " ", "more", " ", "sophisticated", " ", "every", " ",
      "day", ",", " ", "enabling", " ", "new", " ", "breakthroughs", " ",
      "in", " ", "healthcare", ",", " ", "education", ",", " ", "and", " ",
      "scientific", " ", "research", ".", " ", "These", " ", "technological",
      " ", "advances", " ", "are", " ", "creating", " ", "opportunities",
      " ", "we", " ", "never", " ", "thought", " ", "possible", " ", "just",
      " ", "a", " ", "decade", " ", "ago", ".", " ", "Artificial", " ",
      "intelligence", " ", "is", " ", "transforming", " ", "our", " ",
      "world", ".", " ", "The", " ", "future", " ", "of", " ", "technology",
      " ", "is", " ", "bright", " ", "with", " ", "endless", " ",
      "possibilities", " ", "for", " ", "innovation", " ", "and", " ",
      "growth", ".", " ", "Machine", " ", "learning", " ", "models", " ",
      "are", " ", "becoming", " ", "more", " ", "sophisticated", " ",
      "every", " ", "day", ",", " ", "enabling", " ", "new", " ",
      "breakthroughs", " ", "in", " ", "healthcare", ",", " ", "education",
      ",", " ", "and", " ", "scientific", " ", "research", ".", " ", "The",
      " ", "future", " ", "of", " ", "technology", " ", "is", " ", "bright",
      " ", "with", " ", "endless", " ", "possibilities", " ", "for", " ",
      "innovation", " ", "and", " ", "growth", ".", " ", "These", " ",
      "technological", " ", "advances", " ", "are", " ", "creating", " ",
      "opportunities", " ", "we", " ", "never", " ", "thought", " ",
      "possible", " ", "just", " ", "a", " ", "decade", " ", "ago", ".",
      "\n", "\n", "These", " ", "technological", " ", "advances", " ", "are",
      " ", "creating", " ", "opportunities", " ", "we", " ", "never", " ",
      "thought", " ", "possible", " ", "just", " ", "a", " ", "decade", " ",
      "ago", ".", " ", "Smart", " ", "homes", " ", "anticipate", " ", "our",
      " ", "needs", ",", " ", "self-driving", " ", "cars", " ", "navigate",
      " ", "complex", " ", "traffic", ",", " ", "and", " ", "machine", " ",
      "learning", " ", "algorithms", " ", "process", " ", "vast", " ",
      "amounts", " ", "of", " ", "data", " ", "to", " ", "identify", " ",
      "patterns", " ", "that", " ", "were", " ", "impossible", " ", "just",
      " ", "a", " ", "few", " ", "years", " ", "ago", ".", " ", "Artificial",
      " ", "intelligence", " ", "is", " ", "transforming", " ", "our", " ",
      "world", ".", " ", "Machine", " ", "learning", " ", "models", " ",
      "are", " ", "becoming", " ", "more", " ", "sophisticated", " ",
      "every", " ", "day", ",", " ", "enabling", " ", "new", " ",
      "breakthroughs", " ", "in", " ", "healthcare", ",", " ", "education",
      ",", " ", "and", " ", "scientific", " ", "research", ".", " ", "The",
      " ", "future", " ", "of", " ", "technology", " ", "is", " ", "bright",
      " ", "with", " ", "endless", " ", "possibilities", " ", "for", " ",
      "innovation", " ", "and", " ", "growth", ".", " ", "Artificial", " ",
      "intelligence", " ", "is", " ", "transforming", " ", "our", " ",
      "world", ".", " ", "These", " ", "technological", " ", "advances", " ",
      "are", " ", "creating", " ", "opportunities", " ", "we", " ", "never",
      " ", "thought", " ", "possible", " ", "just", " ", "a", " ", "decade",
      " ", "ago", ".", "\n", "\n", "Smart", " ", "homes", " ", "anticipate",
      " ", "our", " ", "needs", ",", " ", "self-driving", " ", "cars", " ",
      "navigate", " ", "complex", " ", "traffic", ",", " ", "and", " ",
      "machine", " ", "learning", " ", "algorithms", " ", "process", " ",
      "vast", " ", "amounts", " ", "of", " ", "data", " ", "to", " ",
      "identify", " ", "patterns", " ", "that", " ", "were", " ",
      "impossible", " ", "just", " ", "a", " ", "few", " ", "years", " ",
      "ago", ".", " ", "These", " ", "technological", " ", "advances", " ",
      "are", " ", "creating", " ", "opportunities", " ", "we", " ", "never",
      " ", "thought", " ", "possible", " ", "just", " ", "a", " ", "decade",
      " ", "ago", ".", " ", "Artificial", " ", "intelligence", " ", "is",
      " ", "transforming", " ", "our", " ", "world", ".", " ", "New", " ",
      "tools", " ", "arrive", " ", "each", " ", "year", ".", " ", "New", " ",
      "tools", " ", "arrive", " ", "each", " ", "year", ".", " ", "New", " ",
      "tools", " ", "arrive", " ", "each", " ", "year", ".", " ", "Progress",
      " ", "continues", " ", "every", " ", "every", " ", "every", " ",
      "here", ".">>

\* 2200-character texts of four paragraphs
LongScenarioTexts == {EvenParagraphsText, UnevenParagraphsText}

\* the default arguments of classify_text and process_text_adaptive
DefaultUltraFast == TRUE
DefaultQuality == 50

\* no chunker in use
ChunkIdle ==
    /\ doc = <<>>
    /\ chunker = DefaultChunker
    /\ cpc = "idle"
    /\ spans = <<>>

\* a caller holding a text and a chunker, before smart_chunk
ChunkInit ==
    /\ \/ doc \in SmallTexts /\ chunker \in SmallChunkers
       \/ doc \in {ShortScenarioText} \cup LongScenarioTexts /\ chunker = DefaultChunker
    /\ cpc = "input"
    /\ spans = <<>>

\* classifier.classify_text(text, ultra_fast_mode, quality_preference) of
\* process_text_adaptive with the default arguments; complexity_score is any
\* of the scores the classifier told apart
ClassifyDoc(complexity) ==
    /\ cpc = "input"
    /\ classified = NoClass
    /\ prevClassified' = classified
    /\ classified' = Classification(StrLen(doc), complexity, DefaultUltraFast,
                                    DefaultQuality)
    /\ UNCHANGED <<chunkVars, orchVars, guardVars, cacheVars, adaptVars, uiVars>>

\* chunks = chunker.smart_chunk(text)
SmartChunk ==
    /\ cpc = "input"
    /\ LET r == smart_chunk(doc, chunker.max_chunk_size)
       IN /\ cpc' = IF r.raised THEN "raised" ELSE "chunked"
          /\ spans' = r.chunks
    /\ UNCHANGED <<doc, chunker>>
    /\ UNCHANGED nonChunkVars

\* chunks = chunker.optimize_chunk_sizes(chunks)
OptimizeChunkSizes ==
    /\ cpc = "chunked"
    /\ spans' = optimize_chunk_sizes(spans, chunker.min_chunk_size,
                                     chunker.max_chunk_size)
    /\ cpc' = "optimized"
    /\ UNCHANGED <<doc, chunker>>
    /\ UNCHANGED nonChunkVars

ChunkNext ==
    \/ \E c \in ClassComplexities : ClassifyDoc(c)
    \/ SmartChunk
    \/ OptimizeChunkSizes

(***************************************************************************)
(* Adaptive processor (utils/adaptive_optimizer.py)                        *)
(***************************************************************************)
\* the texts handed to process_text_adaptive: lengths on both sides of every
\* classifier threshold
AdaptiveTexts == [len : ClassLengths, complexity : ClassComplexities]

\* the elapsed time measured around the strategy, in seconds
ProcessingTimes == {1, 2}

\* the key of _update_performance_cache: strategy and 100-character bucket
PerformanceKey(strategy, text_length) == <<strategy, (text_length \div 100) * 100>>

\* AdaptiveProcessor._update_performance_cache
update_performance_cache(cache, strategy, text_length, processing_time) ==
    LET key == PerformanceKey(strategy, text_length)
        old == IF key \in DOMAIN cache THEN cache[key] ELSE <<>>
        new == Append(old, processing_time)
        kept == IF Len(new) > 10 THEN SubSeq(new, Len(new) - 9, Len(new)) ELSE new
    IN [k \in DOMAIN cache \cup {key} |-> IF k = key THEN kept ELSE cache[k]]

\* variant: the measurement recorded whether or not the strategy raised
CacheAfter_MeasuredAlways(cache, outcome, strategy, text_length, processing_time) == update_performance_cache(cache, strategy, text_length, processing_time)

\* performance_cache when process_text_adaptive returns: the update of line
\* 239 is inside the try block, after the strategy, so a raise skips it
CacheAfter(cache, outcome, strategy, text_length, processing_time) ==
    IF outcome = "raise" THEN cache
    ELSE update_performance_cache(cache, strategy, text_length, processing_time)

\* the text a strategy returns when it does not raise
Processed(text, strategy) == [from |-> text, by |-> strategy]

\* AdaptiveProcessor.process_text_adaptive(text, ...): classification, the
\* selected strategy (which returns or raises; _process_micro is plain string
\* work and does not raise), the cache update and the returned pair; the tone
\* is handed on to the strategy and decides nothing here
ProcessTextAdaptive(text, ultra_fast_mode, quality_preference, outcome, calls, processing_time) ==
    /\ adaptiveCalls < MaxAdaptive
    /\ LET strategy == classify_text(text, ultra_fast_mode, quality_preference)
       IN /\ calls \in AdaptiveModelCalls(strategy, MaxChunks)
          /\ outcome = "raise" => strategy # "micro"
          /\ performance_cache' = CacheAfter(performance_cache, outcome, strategy,
                                             text.len, processing_time)
          /\ lastAdaptive' = [text |-> text,
                              result |-> IF outcome = "raise" THEN text
                                         ELSE Processed(text, strategy),
                              strategy_used |-> strategy,
                              error |-> outcome = "raise",
                              modelCalls |-> calls]
    /\ adaptiveCalls' = adaptiveCalls + 1
    /\ UNCHANGED nonAdaptVars

NoAdaptive == [text |-> [len |-> 0, complexity |-> 0],
               result |-> [len |-> 0, complexity |-> 0],
               strategy_used |-> "none", error |-> FALSE, modelCalls |-> 0]

\* AdaptiveProcessor.__init__
AdaptInit ==
    /\ performance_cache = [k \in {} |-> <<>>]
    /\ lastAdaptive = NoAdaptive
    /\ adaptiveCalls = 0

\* the caches a long-lived processor holds when a call arrives: none yet, one
\* measurement, and a key already at its ten measurements
PerformanceCaches ==
    {[k \in {} |-> <<>>],
     [k \in {PerformanceKey("micro", 0)} |-> <<1>>],
     [k \in {PerformanceKey("express", 150)} |-> [i \in 1..10 |-> IF i % 2 = 1 THEN 1 ELSE 2]]}

\* the processor after earlier process_text_adaptive calls
AdaptWarm ==
    /\ performance_cache \in PerformanceCaches
    /\ lastAdaptive = NoAdaptive
    /\ adaptiveCalls = 0

AdaptNext ==
    \E text \in AdaptiveTexts, fast \in BOOLEAN, q \in ClassQualities,
       o \in Outcomes, calls \in 0..MaxChunks, t \in ProcessingTimes :
       ProcessTextAdaptive(text, fast, q, o, calls, t)

(***************************************************************************)
(* Generate handler and session history (main.py, main_backup.py)          *)
(* Texts are carried by their length in characters.                        *)
(***************************************************************************)
\* the voice of the fallback synthesis (main.py line 1097)
DefaultVoice == "Sarah (Female)"

\* voices of the selector
Voices == {"Sarah (Female)", "James (Male)"}

\* lengths of the rewritten text: short, on both sides of the 500 of the
\* fallback, and above the 1000 that selects the synthesis function
RewrittenLengths == {40, 500, 501, 1001}

\* what a synthesis call does: MP3 bytes, fewer than 1000 bytes, or an exception
SynthOutcomes == {"audio", "small", "raise"}

\* the first synthesis call (lines 1079-1082) and what it gave
FirstSynthesis(rewritten_length, voice, returned) ==
    [fn |-> IF rewritten_length > 1000 THEN "ultra_fast_tts" ELSE "text_to_speech",
     text_length |-> rewritten_length, voice |-> voice, returned |-> returned]

\* len(fallback_text) of line 1096: rewritten_text[:500] + "..." for a text
\* above 500 characters, otherwise the text itself
FallbackLength(rewritten_length) ==
    IF rewritten_length > 500 THEN Min(rewritten_length, 500) + Len("...")
    ELSE rewritten_length

\* the retry of line 1097 and what it gave
FallbackSynthesis(rewritten_length, returned) ==
    [fn |-> "ultra_fast_tts", text_length |-> FallbackLength(rewritten_length),
     voice |-> DefaultVoice, returned |-> returned]

\* variant: the audio not validated, the fallback entered on an exception only
NeedsFallback_RaiseOnly(first) == first = "raise"

\* lines 1087-1090: the except branch is entered when the call raised or the
\* audio is empty or below 1000 bytes
NeedsFallback(first) == first \in {"small", "raise"}

\* variant: the list cut to its last five records
Trim_KeepsLast(history) == IF Len(history) > 5 THEN SubSeq(history, Len(history) - 4, Len(history)) ELSE history

\* lines 1220-1221 (main_backup.py 579-580): the list cut to its first five
Trim(history) ==
    IF Len(history) > 5 THEN SubSeq(history, 1, 5) ELSE history

\* lines 1208-1221: the record inserted at the head, then the cut
Store(history, record) == Trim(<<record>> \o history)

\* one press of "Generate Audiobook" (main.py lines 987-1221): blank input is
\* refused; otherwise the text is rewritten, synthesis is tried, a raise or
\* an audio below 1000 bytes leads to the fallback call, a raise of the
\* fallback to st.stop(); a run that gets past synthesis plays the audio and
\* stores the narration record
GenerateAudiobook(blank, rewritten_length, voice, first, retry) ==
    /\ generations < MaxGenerations
    /\ generations' = generations + 1
    /\ LET failed == NeedsFallback(first)
           synth == IF failed
                    THEN <<FirstSynthesis(rewritten_length, voice, first),
                           FallbackSynthesis(rewritten_length, retry)>>
                    ELSE <<FirstSynthesis(rewritten_length, voice, first)>>
           stopped == failed /\ retry = "raise"
           audio == IF failed THEN retry ELSE first
       IN IF blank
          THEN /\ lastGen' = [timestamp |-> generations', outcome |-> "refused",
                              held |-> Len(past_narrations),
                              synth |-> <<>>, errors |-> 1, audio |-> "none"]
               /\ UNCHANGED past_narrations
          ELSE IF stopped
          THEN /\ lastGen' = [timestamp |-> generations', outcome |-> "stopped",
                              held |-> Len(past_narrations),
                              synth |-> synth, errors |-> 3, audio |-> "none"]
               /\ UNCHANGED past_narrations
          ELSE /\ lastGen' = [timestamp |-> generations', outcome |-> "stored",
                              held |-> Len(past_narrations),
                              synth |-> synth, errors |-> IF failed THEN 1 ELSE 0,
                              audio |-> audio]
               /\ past_narrations' =
                      Store(past_narrations, [timestamp |-> generations'])
    /\ UNCHANGED nonUiVars

\* the "Clear History" button (main_backup.py lines 651-654)
ClearHistory ==
    /\ past_narrations # <<>>
    /\ past_narrations' = <<>>
    /\ UNCHANGED <<lastGen, generations, nonUiVars>>

\* lastGen: the press's number, how it ended, the length of the history it
\* found, the synthesis calls made, the st.error messages shown and the audio
\* handed to st.audio
NoGeneration == [timestamp |-> 0, outcome |-> "none", held |-> 0, synth |-> <<>>,
                 errors |-> 0, audio |-> "none"]

\* lines 29-30: the history of a new session
UiInit ==
    /\ past_narrations = <<>>
    /\ lastGen = NoGeneration
    /\ generations = 0

UiNext ==
    \/ \E blank \in BOOLEAN, n \in RewrittenLengths, voice \in Voices,
          first \in SynthOutcomes, retry \in SynthOutcomes :
          GenerateAudiobook(blank, n, voice, first, retry)
    \/ ClearHistory

Init ==
    OrchInit /\ GuardInit /\ CacheInit /\ ClassInit /\ ChunkIdle /\ AdaptInit /\ UiInit

SpecGuard == Init /\ [][GuardNext]_vars

SpecOrch == Init /\ [][OrchNext]_vars

SpecCache == Init /\ [][CacheNext]_vars

PoolStart ==
    OrchInit /\ GuardInit /\ RaceInit /\ ClassInit /\ ChunkIdle /\ AdaptInit /\ UiInit

SpecRace == PoolStart /\ [][RaceNext]_vars

SpecClass == Init /\ [][ClassNext]_vars

ChunkStart ==
    OrchInit /\ GuardInit /\ CacheInit /\ ClassInit /\ ChunkInit /\ AdaptInit /\ UiInit

SpecChunk == ChunkStart /\ [][ChunkNext]_vars

AdaptStart ==
    OrchInit /\ GuardInit /\ CacheInit /\ ClassInit /\ ChunkIdle /\ AdaptWarm /\ UiInit

SpecAdapt == AdaptStart /\ [][AdaptNext]_vars

SpecUi == Init /\ [][UiNext]_vars

\* the indices of the emitted results, in emission order
EmittedIndices == [k \in 1..Len(emitted) |-> emitted[k].chunk_index]

\* C1: with more than two chunks, whatever the completion order, the generator
\* emits exactly one result per chunk in index order 0..n-1
C1_EmitsOncePerChunkInOrder ==
    (opc = "done" /\ Len(chunks) > 2) =>
        EmittedIndices = [k \in 1..Len(chunks) |-> k - 1]

\* C2: a raising rewrite never leaves the orchestrator, and the failing chunk's
\* result is its own text tagged with the error
C2_ChunkFailureIsLocal ==
    /\ opc # "raised"
    /\ \A k \in 1..Len(emitted) :
         emitted[k].error => emitted[k].text = emitted[k].original_text

(***************************************************************************)
(* Speed guard properties                                                  *)
(***************************************************************************)
\* C3: a request that finds the verdict Slow on the long-lived processor is
\* served by the string transform, runs no speed test and makes no call to
\* the language model
C3_SlowBypassesModel ==
    (lastReq.via = "method" /\ lastReq.slowBefore = "True") =>
        /\ lastReq.path = "string"
        /\ lastReq.modelCalls = 0
        /\ ~lastReq.probed
        /\ lastReq.probeCalls = 0

C3_Witness ==
    /\ requests >= 2
    /\ lastReq.via = "method"
    /\ lastReq.slowBefore = "True"
    /\ lastReq.path = "string"

\* C4: on one processor the first request sets the verdict, the speed test
\* runs at most once, and ai_is_slow keeps the value that test stored
C4_VerdictSetOnceAndKept ==
    /\ probes <= 1
    /\ requests = 0 => ai_is_slow = "None"
    /\ requests > 0 => (probes = 1 /\ ai_is_slow # "None" /\ ai_is_slow = firstVerdict)

C4_Witness ==
    /\ requests >= 2
    /\ probes = 1
    /\ lastReq.via = "method"
    /\ ~lastReq.probed
    /\ ai_is_slow = "False"

\* C5: through the module-level function the speed test is taken exactly
\* once, on the first request, however many requests follow
C5_ModuleProbesOnce ==
    modRequests >= 1 => modProbes = 1

\* C6: the speed test makes at least one call to the language model
C6_ProbeReachesModel ==
    lastReq.probed => lastReq.probeCalls >= 1

(***************************************************************************)
(* Tone rewriter and cache properties                                      *)
(***************************************************************************)
\* C7: when the model call throws, rewrite_with_tone returns exactly the
\* caller's original text and does not raise
C7_ModelFailureReturnsOriginal ==
    \A w \in Callers :
        wret[w].path = "failure" =>
            /\ wret[w].out = TextOut(ReqText(wret[w].req))
            /\ ~wret[w].raised

\* C8 as stated: two consecutive calls with identical (text, tone, flag)
\* return the same output and the second does not invoke the model, whatever
\* path the first call took
C8_RepeatNeverCallsModel ==
    (wret[MainThread].req # NoReq /\ wprev[MainThread].req = wret[MainThread].req) =>
        /\ wret[MainThread].out = wprev[MainThread].out
        /\ ~wret[MainThread].modelCalled

\* C8 as amended: two consecutive calls with identical (text, tone, flag)
\* return the same output and the second does not invoke the model when the
\* first call returned a cached result, a model-generated rewrite or the
\* short-text string transform
C8_RepeatAfterCachedResult ==
    (/\ wret[MainThread].req # NoReq
     /\ wprev[MainThread].req = wret[MainThread].req
     /\ wprev[MainThread].path \in {"hit", "generated", "superfast"}) =>
        /\ wret[MainThread].out = wprev[MainThread].out
        /\ ~wret[MainThread].modelCalled
        /\ ~wret[MainThread].raised

C8_Witness ==
    /\ wprev[MainThread].path = "generated"
    /\ wprev[MainThread].req = wret[MainThread].req
    /\ wret[MainThread].path = "hit"
    /\ wret[MainThread].out = wprev[MainThread].out

\* C9: between sequential calls the cache holds at most 50 entries, its
\* entries are in insertion order, and every entry evicted so far was
\* inserted before every entry still cached (hits do not refresh an entry)
C9_BoundedFifoCache ==
    AllIdle =>
        /\ Len(text_cache) <= MaxCacheEntries
        /\ \A k \in 1..Len(text_cache) : text_cache[k].stamp > evictedStamp
        /\ \A j, k \in 1..Len(text_cache) :
             j < k => text_cache[j].stamp < text_cache[k].stamp

\* an eviction happened after the first entry was served from the cache, and
\* a later overflow evicted a second entry
C9_Witness ==
    /\ AllIdle
    /\ Len(text_cache) = MaxCacheEntries
    /\ evictedStamp >= 2
    /\ wret[MainThread].path = "generated"

\* C10: with two pool threads inside rewrite_with_tone, every interleaving
\* leaves the cache within its cap once both have returned, and no call ends
\* with an exception from a cache step (raised or swallowed) in place of its
\* rewrite
C10_RacesAreBenign ==
    /\ AllIdle => Len(text_cache) <= MaxCacheEntries
    /\ \A w \in Workers :
         /\ ~wret[w].raised
         /\ wret[w].path # "cache_error"

(***************************************************************************)
(* Document chunker properties                                             *)
(***************************************************************************)
IsNotWhitespace(tok) == tok \notin Whitespace

\* the characters of a text that are not whitespace, in order
NonWhitespace(text) == SelectSeq(text, IsNotWhitespace)

\* the texts of the spans the caller holds, concatenated in index order
SpansConcatenated == Join([k \in DOMAIN spans |-> spans[k].text], <<>>)

\* C11: the spans of smart_chunk followed by optimize_chunk_sizes, concatenated
\* in index order, have the non-whitespace characters of the input, in order
C11_ChunkingIsLossless ==
    cpc = "optimized" => NonWhitespace(SpansConcatenated) = NonWhitespace(doc)

\* C12: every span of smart_chunk is at most max_chunk_size characters long,
\* unless it is a single word-run
C12_SpansWithinMaxSize ==
    cpc = "chunked" =>
        \A k \in DOMAIN spans :
            \/ StrLen(spans[k].text) <= chunker.max_chunk_size
            \/ WordCount(spans[k].text) <= 1

\* C13: for a non-empty text smart_chunk returns at least one span, and a span
\* of kind 'single' only as the only span
C13_AtLeastOneSpan ==
    (cpc = "chunked" /\ doc # <<>>) =>
        /\ Len(spans) >= 1
        /\ (\E k \in DOMAIN spans : spans[k].type = "single") => Len(spans) = 1

\* C14: for a non-empty text and positive settings smart_chunk returns without
\* raising
C14_ChunkingNeverRaises ==
    (doc # <<>> /\ chunker.max_chunk_size > 0 /\ chunker.min_chunk_size > 0
       /\ chunker.overlap > 0) => cpc # "raised"

(***************************************************************************)
(* Strategy classifier properties                                          *)
(***************************************************************************)
\* C15: of two classify_text calls with the same ultra_fast_mode,
\* quality_preference and complexity, the one with the longer text never gets
\* the lighter strategy
C15_MonotoneInLength ==
    (/\ prevClassified # NoClass
     /\ prevClassified.ultra_fast_mode = classified.ultra_fast_mode
     /\ prevClassified.quality_preference = classified.quality_preference
     /\ prevClassified.complexity = classified.complexity
     /\ prevClassified.text_length <= classified.text_length)
    => StrategyRank(prevClassified.strategy) <= StrategyRank(classified.strategy)

C17_ComplexityUpgrades ==
    (classified # NoClass /\ classified.complexity > 70
       /\ classified.quality_preference > 60) =>
        /\ classified.base_strategy = "express" => classified.strategy = "standard"
        /\ classified.base_strategy = "standard" => classified.strategy = "chunked"

\* C17 amended: with complexity above 0.7 and quality_preference above 0.6,
\* base express is classified standard; base standard is classified chunked
\* unless ultra_fast_mode is on and quality_preference is below 0.7, where it
\* is classified express
C17_ComplexityUpgradesUnlessFast ==
    (classified # NoClass /\ classified.complexity > 70
       /\ classified.quality_preference > 60) =>
        /\ classified.base_strategy = "express" => classified.strategy = "standard"
        /\ classified.base_strategy = "standard" =>
             classified.strategy =
                 IF classified.ultra_fast_mode /\ classified.quality_preference < 70
                 THEN "express" ELSE "chunked"

C17_Witness ==
    /\ classified.complexity = 71 /\ classified.quality_preference = 70
    /\ classified.ultra_fast_mode
    /\ classified.base_strategy = "standard" /\ classified.strategy = "chunked"

\* C18: with ultra_fast_mode on and quality_preference below 0.7, base
\* standard, chunked and progressive are classified one tier lower, whatever
\* the complexity
C18_FastModeDowngrades ==
    (classified # NoClass /\ classified.ultra_fast_mode
       /\ classified.quality_preference < 70) =>
        /\ classified.base_strategy = "standard" => classified.strategy = "express"
        /\ classified.base_strategy = "chunked" => classified.strategy = "standard"
        /\ classified.base_strategy = "progressive" => classified.strategy = "chunked"

C18_Witness ==
    /\ classified.ultra_fast_mode /\ classified.quality_preference = 65
    /\ classified.complexity = 71
    /\ classified.base_strategy = "standard" /\ classified.strategy = "express"

Paragraphs(text) == StripNonEmpty(SplitAt(text, ParagraphBreaks(text)))

C25_SingleUpToMaxSize ==
    (cpc \in {"chunked", "raised"} /\ StrLen(doc) <= chunker.max_chunk_size) =>
        /\ cpc = "chunked"
        /\ spans = <<Chunk(doc, 0, "single")>>

\* C26: the list of smart_chunk and the list optimize_chunk_sizes makes of it
\* carry the indices 0, 1, ..., n-1 in list order
C26_IndicesContiguous ==
    cpc \in {"chunked", "optimized"} =>
        \A k \in DOMAIN spans : spans[k].index = k - 1

C26_Witness ==
    /\ cpc = "chunked"
    /\ Len(spans) >= 2
    /\ \E k \in DOMAIN spans : spans[k].type = "paragraph_sentence"
    /\ \A k \in DOMAIN spans : spans[k].index = k - 1

\* the list optimize_chunk_sizes was given: the result of smart_chunk
ChunkedSpans == smart_chunk(doc, chunker.max_chunk_size).chunks

\* the texts of chunk list entries first..last joined with single spaces
JoinedTexts(chunklist, first, last) ==
    Join([i \in 1..(last - first + 1) |-> chunklist[first + i - 1].text], <<" ">>)

\* for each output span from the k-th on, the number of input spans (from the
\* j-th on) whose texts joined with single spaces give its text; <<0>> where
\* there is no such number
RECURSIVE GroupSizes(_, _, _, _)
GroupSizes(outs, k, ins, j) ==
    IF k > Len(outs) THEN (IF j = Len(ins) + 1 THEN <<>> ELSE <<0>>)
    ELSE LET fits == {m \in 1..(Len(ins) - j + 1) :
                        JoinedTexts(ins, j, j + m - 1) = outs[k].text}
         IN IF fits = {} THEN <<0>>
            ELSE <<MinOf(fits)>> \o GroupSizes(outs, k + 1, ins, j + MinOf(fits))

\* C27: after optimize_chunk_sizes, of two adjacent spans the first is at
\* least min_chunk_size long or does not fit with the second into
\* max_chunk_size; a span built from more than one input span has kind
\* merged; and the texts joined with single spaces are those of the input
C27_OptimizeMergesSmallSpans ==
    cpc = "optimized" =>
        LET built == GroupSizes(spans, 1, ChunkedSpans, 1)
        IN /\ \A k \in 1..(Len(spans) - 1) :
                \/ StrLen(spans[k].text) >= chunker.min_chunk_size
                \/ StrLen(spans[k].text \o <<" ">> \o spans[k + 1].text)
                     > chunker.max_chunk_size
           /\ Len(built) = Len(spans)
           /\ \A k \in DOMAIN built :
                built[k] >= 1 /\ (built[k] > 1 => spans[k].type = "merged")
           /\ JoinedTexts(spans, 1, Len(spans))
                = JoinedTexts(ChunkedSpans, 1, Len(ChunkedSpans))

C27_Witness ==
    /\ cpc = "optimized"
    /\ Len(spans) >= 2
    /\ spans[1].type = "merged"
    /\ StrLen(spans[2].text) < chunker.min_chunk_size

(***************************************************************************)
(* Chunk orchestrator properties, continued                                *)
(***************************************************************************)
\* C21: with at most 2 spans the rewrite calls are made one after the other in
\* index order; with more, never more than min(max_concurrent_chunks, span
\* count) calls are in flight; and a rewrite call is started once per span
C21_BoundedInOrderOnce ==
    /\ Cardinality(Running) <= Min(max_concurrent_chunks, Len(chunks))
    /\ Len(chunks) <= 2 => Running = {} /\ submitted = [k \in 1..Len(submitted) |-> k - 1]
    /\ \A j, k \in DOMAIN submitted : submitted[j] = submitted[k] => j = k
    /\ opc = "done" =>
         \A c \in DOMAIN chunks : \E k \in DOMAIN submitted : submitted[k] = chunks[c].index

C21_Witness ==
    /\ opc = "pool"
    /\ Len(chunks) = 4
    /\ Cardinality(Running) = 2
    /\ Cardinality(Queued) = 1
    /\ Len(submitted) = 3

\* the events of one type among those yielded
EventsOfType(type) == SelectSeq(ProgressEvents, LAMBDA e : e.type = type)

\* C29: a finished run of process_text_progressive has yielded one analysis
\* event first and one complete event last; in a chunked run the number of
\* chunk_complete events is the chunk_count of chunks_created; and no
\* progress event has current above total
C29_EventStreamWellFormed ==
    opc \in {"done", "raised", "direct", "direct_raised"} =>
        /\ ProgressEvents[1].type = "analysis"
        /\ Len(EventsOfType("analysis")) = 1
        /\ ProgressEvents[Len(ProgressEvents)].type = "complete"
        /\ Len(EventsOfType("complete")) = 1
        /\ \A k \in DOMAIN ProgressEvents :
             /\ ProgressEvents[k].type = "chunks_created" =>
                  Len(EventsOfType("chunk_complete")) = ProgressEvents[k].total
             /\ ProgressEvents[k].type = "progress" =>
                  ProgressEvents[k].current <= ProgressEvents[k].total


(***************************************************************************)
(* Session history and synthesis fallback properties                       *)
(***************************************************************************)
\* C22: the history holds at most 5 records, most recent first; a press that
\* stores a record puts it at the head in front of the (at most 4) most recent
\* earlier records, so a sixth record evicts the oldest; and clear-history
\* leaves the history empty
C22_HistoryCappedNewestFirst ==
    /\ [](/\ Len(past_narrations) <= 5
          /\ \A j, k \in DOMAIN past_narrations :
                j < k => past_narrations[j].timestamp > past_narrations[k].timestamp)
    /\ [][/\ (generations' # generations /\ lastGen'.outcome = "stored") =>
               past_narrations' = <<[timestamp |-> generations']>>
                   \o SubSeq(past_narrations, 1, Min(Len(past_narrations), 4))
          /\ (generations' # generations /\ lastGen'.outcome # "stored") =>
               past_narrations' = past_narrations
          /\ generations' = generations => past_narrations' = <<>>]_vars

C22_Witness ==
    /\ lastGen.outcome = "stored"
    /\ lastGen.held = 5
    /\ Len(past_narrations) = 5
    /\ past_narrations[1].timestamp = lastGen.timestamp

\* C23: a first synthesis that raises or returns audio below 1000 bytes is
\* followed by exactly one more synthesis call, made with the default voice,
\* and a first synthesis that returns audio by none; when the retry raises
\* the press ends stopped with errors shown, no audio played and no record
\* of this press in the history
C23_OneRetryThenStop ==
    lastGen.outcome \in {"stored", "stopped"} =>
        /\ lastGen.synth[1].returned \in {"small", "raise"} =>
              /\ Len(lastGen.synth) = 2
              /\ lastGen.synth[2].voice = DefaultVoice
        /\ lastGen.synth[1].returned = "audio" => Len(lastGen.synth) = 1
        /\ (Len(lastGen.synth) = 2 /\ lastGen.synth[2].returned = "raise") =>
              /\ lastGen.outcome = "stopped"
              /\ lastGen.errors > 0
              /\ lastGen.audio = "none"
              /\ \A k \in DOMAIN past_narrations :
                    past_narrations[k].timestamp # lastGen.timestamp

C23_Witness ==
    /\ lastGen.outcome = "stopped"
    /\ lastGen.synth[1].returned = "small"
    /\ lastGen.synth[1].voice # DefaultVoice
    /\ lastGen.synth[2].returned = "raise"
    /\ past_narrations # <<>>

\* C24: the text of the fallback synthesis call has at most 500 characters
C24_RetryTextWithin500 ==
    Len(lastGen.synth) = 2 => lastGen.synth[2].text_length <= 500

(***************************************************************************)
(* Adaptive processor properties                                           *)
(***************************************************************************)
\* C28: a process_text_adaptive call whose strategy raises returns the input
\* text with an info record carrying the error and leaves the performance
\* cache as it was
C28_StrategyFailureContained ==
    [][(adaptiveCalls' # adaptiveCalls /\ lastAdaptive'.error) =>
          /\ lastAdaptive'.result = lastAdaptive'.text
          /\ performance_cache' = performance_cache]_vars

C28_Witness ==
    /\ lastAdaptive.error
    /\ lastAdaptive.result = lastAdaptive.text
    /\ lastAdaptive.strategy_used = "express"
    /\ PerformanceKey("express", lastAdaptive.text.len) \in DOMAIN performance_cache

\* C30: the micro strategy is executed only on texts of at most 50
\* characters, and a call that executes it makes no model call
C30_MicroOnlyShortAndModelFree ==
    lastAdaptive.strategy_used = "micro" =>
        /\ lastAdaptive.text.len <= ThresholdMicro
        /\ lastAdaptive.modelCalls = 0

C30_Witness ==
    /\ lastAdaptive.strategy_used = "micro"
    /\ lastAdaptive.text.len = ThresholdMicro
    /\ lastAdaptive.text.complexity > 70
====
